---- MODULE Spec2Model ----
(***************************************************************************)
(* Model of monitor-srag-ai: the script app.py with its data, chart and    *)
(* agent stages, the agent graph of src/intelligence/graph.py, and the     *)
(* tools of src/intelligence/tools.py.                                     *)
(*                                                                         *)
(* The specifications of the module:                                       *)
(*   Spec / FairSpec  one agent.invoke(...) run of the compiled graph      *)
(*   SearchSpec       one call of search_process (the retrieval tool)      *)
(*   FusionSpec       the branches and the fusion of _hybrid_search on     *)
(*                    documents of several chunks                          *)
(*   AppSpec          one run of app.py's main(), from the import of the   *)
(*                    settings to the display of the results               *)
(*   BuildSpec        get_agent_graph() and the graph's run on any state   *)
(*                    of the database file                                 *)
(*   PipelineSpec     verify_and_run_etl(force_rebuild) called on its own  *)
(*   DownloadSpec     runs of DataDownloader.run with its concurrent       *)
(*                    _download_file tasks                                 *)
(* The variables of the part a specification does not drive keep their     *)
(* initial value.                                                          *)
(***************************************************************************)
EXTENDS Integers, Sequences, FiniteSets

VARIABLES
    messages,        \* AgentState["messages"]
    node,            \* the node the graph has scheduled next
    active,          \* the nodes the edges have triggered for the next superstep
    step,            \* supersteps of the graph executed so far
    results,         \* ToolNode: call index -> ToolMessage of a finished call
    finished,        \* ToolNode: the call indexes, in the order they finished
    idgen,           \* ids handed out so far (message ids are fresh)
    free,            \* turns left in which the model's output is unrestricted
    status,          \* app.py: "running", "report" or "failed"
    error,           \* the exception agent.invoke raised, "none" if none
    final_response,  \* app.py: result["messages"][-1].content
    s_pc,            \* search_process: position in the call
    tavily,          \* tavily.invoke(query): "pending", "ok" or "failed"
    raw_results,     \* what tavily.invoke(query) returned
    chunks,          \* splitter.split_documents(documents)
    semantic_docs,   \* the semantic branch's documents
    lexical_docs,    \* the lexical branch's documents
    branch_ran,      \* which of the two branches were attempted
    branch_failed,   \* which of the two branches raised
    unique_docs,     \* the fused, deduplicated documents
    output,          \* the text search_process returned
    stage,           \* app.py: the statement the script has reached
    creds,           \* the environment holds OPENAI_API_KEY and TAVILY_API_KEY
    db,              \* settings.DB_PATH: the file, its casos_srag table
    parquet,         \* settings.RAW_DATA_DIR: the *.parquet files
    imgs,            \* settings.PLOTS_DIR: the image files on disk
    data_referencia, \* app.py: the date get_latest_db_date() returned
    sql_tool,        \* the tool create_sql_tool() returned, its prompt's date
    df_daily,        \* plotter: the days the daily query selected
    shown,           \* what the page displays: the report, the images
    force_rebuild,   \* verify_and_run_etl: its argument
    etl,             \* verify_and_run_etl: db_exists, parquet_files, the modules run
    download_links,  \* DataDownloader.run: the links read from the portal
    tasks,           \* DataDownloader.run: one _download_file per link
    disk,            \* settings.DATA_DIR: file name -> the file's chunks
    runs,            \* how often run_downloader() has been called
    handle_tool_errors \* ToolNode: its default turns a tool's exception into a message

agentVars == <<messages, node, active, step, results, finished, idgen, free,
               status, error, final_response>>
searchVars == <<s_pc, tavily, raw_results, chunks, semantic_docs, lexical_docs,
                branch_ran, branch_failed, unique_docs, output>>
downloadVars == <<download_links, tasks, disk, runs>>
pageVars == <<stage, creds, db, parquet, imgs, data_referencia, sql_tool,
              df_daily, shown, force_rebuild, etl>>
appVars == <<pageVars, downloadVars>>
vars == <<agentVars, searchVars, appVars, handle_tool_errors>>

----------------------------------------------------------------------------
(* Bounds of the model *)

\* turns in which the model may request any list of calls with any outcome;
\* afterwards it either stops or asks for one more SQL query
MaxFreeTurns == 1

\* exceptions of the SQL tool in one run of the page's agent, whose turns
\* are not free
MaxToolFaults == 1

\* requested calls carried by one Assistant message in a free turn
MaxCalls == 2

\* length of the Conversation beyond which no node is modelled
MaxConversation == 64

\* documents in one answer of the search provider (at most max_results)
MaxDocs == 4

\* documents of two chunks each in one answer, for the runs of the fusion
MaxLongDocs == 3

\* the latest day of symptoms a table may hold, as a day of the year 2024
\* (182 is 2024-06-30)
LastDay == 182

\* the longest stretch of days, before its latest day, a table may cover
MaxSpan == 31

----------------------------------------------------------------------------
(* The agent graph *)

\* the default recursion_limit of a compiled graph's invoke
RecursionLimit == 25

SqlTool == "consultar_banco_sql"
RagTool == "pesquisar_noticias_contexto"
UnknownTool == "ferramenta_inexistente"

available_tools == {SqlTool, RagTool}

\* the capability names a model may put in a tool call
ToolNames == available_tools \cup {UnknownTool}

NoCallId == <<>>

Message(id, role, content, calls, name, callId, st) ==
    [id |-> id, role |-> role, content |-> content, tool_calls |-> calls,
     name |-> name, tool_call_id |-> callId, status |-> st]

HumanMessage(id) == Message(id, "human", "prompt_dinamico", <<>>, "", NoCallId, "")

\* the model's answer in agent_brain: calls is a sequence of capability names
AIMessage(id, calls) ==
    Message(id, "ai", "raciocinio",
            [i \in 1..Len(calls) |-> [name |-> calls[i], id |-> <<id, i>>]],
            "", NoCallId, "")

ReportMessage(id) == Message(id, "ai", "relatorio", <<>>, "", NoCallId, "")

ToolMessage(content, call, st) ==
    Message(0, "tool", content, <<>>, call.name, call.id, st)

\* ToolNode's answer to a call whose name is not a registered tool
INVALID_TOOL_NAME_ERROR == "Error: not a valid tool, try one of the available tools."

\* ToolNode's rendering of an exception a tool raised
TOOL_CALL_ERROR == "Error: exception raised by the tool. Please fix your mistakes."

\* what the lambda of create_sql_tool returns when the SQL agent answers
SqlAnswer == "resposta_sql"

\* the text search_process returned (one of the outputs of SearchSpec)
RagAnswer == "contexto_noticias"

\* a tool call whose exception ToolNode lets through
Raised == [raised |-> TRUE]

NoResult == [raised |-> FALSE]

----------------------------------------------------------------------------
(* AgentState: messages: Annotated[list, add_messages] *)

\* add_messages gives an id to every message that has none (id 0)
RECURSIVE AssignIds(_, _)
AssignIds(right, base) ==
    IF right = <<>> THEN <<>>
    ELSE IF Head(right).id = 0
         THEN <<[Head(right) EXCEPT !.id = base + 1]>> \o AssignIds(Tail(right), base + 1)
         ELSE <<Head(right)>> \o AssignIds(Tail(right), base)

RECURSIVE CountNoId(_)
CountNoId(right) ==
    IF right = <<>> THEN 0
    ELSE (IF Head(right).id = 0 THEN 1 ELSE 0) + CountNoId(Tail(right))

\* a plausible slip: the state key without its reducer, so an update overwrites
add_messages_overwrite(left, right) == right

\* the reducer: a message whose id is already in the list replaces that
\* message, any other message is appended
RECURSIVE add_messages(_, _)
add_messages(left, right) ==
    IF right = <<>> THEN left
    ELSE LET m == Head(right)
             hit == {i \in 1..Len(left) : left[i].id = m.id}
         IN  IF hit # {}
             THEN add_messages([left EXCEPT ![CHOOSE i \in hit : TRUE] = m], Tail(right))
             ELSE add_messages(Append(left, m), Tail(right))

\* the update {"messages": right} a node returns, applied to the state
Update(left, right, base) == add_messages(left, AssignIds(right, base))

----------------------------------------------------------------------------
(* router and the edges *)

\* a plausible slip: a loop guard inside the router, which stops sending to
\* the tools once the Conversation has grown
router_counting(state) ==
    IF Len(state[Len(state)].tool_calls) > 0 /\ Len(state) <= 4
    THEN "tools_execution" ELSE "final_report"

\* a plausible slip: the two branches exchanged
router_swapped(state) ==
    IF Len(state[Len(state)].tool_calls) > 0 THEN "final_report" ELSE "tools_execution"

\* router(state): state is the message list
router(state) ==
    LET last_message == state[Len(state)]
    IN  IF Len(last_message.tool_calls) > 0 THEN "tools_execution" ELSE "final_report"

\* add_conditional_edges("agent_brain", router, {...})
conditional_edges == [tools_execution |-> "tools_execution", final_report |-> "final_report"]

\* add_edge("tools_execution", "agent_brain")
AfterTools == "agent_brain"

\* a plausible slip: the report node wired back into the loop
AfterReport_loops == "agent_brain"

\* add_edge("final_report", END)
AfterReport == "__end__"

Nodes == {"agent_brain", "tools_execution", "final_report"}

\* a plausible slip: add_edge("agent_brain", "final_report") next to the
\* conditional edges, so that the report node is triggered with the tools
Triggered_fanout(n, state) ==
    (CASE n = "__start__" -> {"agent_brain"}
       [] n = "agent_brain" -> {conditional_edges[router(state)], "final_report"}
       [] n = "tools_execution" -> {AfterTools}
       [] n = "final_report" -> {AfterReport}
       [] OTHER -> {}) \ {"__end__"}

\* the edges of the compiled graph: the nodes that run in the superstep
\* after node n has returned with the message list state (START and END are
\* not nodes; all nodes of one superstep run in parallel)
Triggered(n, state) ==
    (CASE n = "__start__" -> {"agent_brain"}
       [] n = "agent_brain" -> {conditional_edges[router(state)]}
       [] n = "tools_execution" -> {AfterTools}
       [] n = "final_report" -> {AfterReport}
       [] OTHER -> {}) \ {"__end__"}

\* a plausible slip: a graph run with no step limit
out_of_steps_never(s) == FALSE

\* the graph stops with GraphRecursionError once recursion_limit supersteps ran
out_of_steps(s) == s >= RecursionLimit

----------------------------------------------------------------------------
(* tools_execution: ToolNode(available_tools) *)

\* a plausible slip: the tool looked up by name with no check (a KeyError)
InvalidToolResult_raises(call) == Raised

\* the answer to a call that names no registered tool
InvalidToolResult(call) == ToolMessage(INVALID_TOOL_NAME_ERROR, call, "error")

\* an exception raised inside a tool's func. ToolNode(available_tools) passes
\* no handle_tool_errors and no version of langgraph is pinned: up to 0.x the
\* default (True) answers with an error ToolMessage, from 1.0 on the default
\* handler lets the exception of a tool through
HandleToolError(call) ==
    IF handle_tool_errors THEN ToolMessage(TOOL_CALL_ERROR, call, "error") ELSE Raised

\* what may happen inside the func of a tool: the SQL agent answers or
\* raises; search_process always returns a text (it catches every exception
\* itself, see SearchSpec)
Outcomes(name) ==
    LET faults == Cardinality({p \in 1..Len(messages) :
                                 /\ messages[p].role = "tool"
                                 /\ messages[p].content = TOOL_CALL_ERROR})
    IN  IF name = SqlTool
        THEN (IF free > 0 \/ (sql_tool.built /\ faults < MaxToolFaults)
              THEN {"ok", "raise"} ELSE {"ok"})
    ELSE IF name = RagTool THEN {"ok"}
    ELSE {"invalid"}

\* search_process's text when tavily.invoke or _hybrid_search raised
SearchErrorText == "Erro ao buscar contexto externo."

\* one tool call run by ToolNode
RunTool(call, outcome) ==
    IF call.name \notin available_tools THEN InvalidToolResult(call)
    ELSE IF call.name = SqlTool
         THEN (IF outcome = "raise" THEN HandleToolError(call)
               ELSE ToolMessage(SqlAnswer, call, "success"))
         ELSE ToolMessage(RagAnswer, call, "success")

\* a plausible slip: the results collected as the calls finish
ToolOutputs_as_finished(res, fin) == [k \in 1..Len(fin) |-> res[fin[k]]]

\* the node's output: one ToolMessage per call, in the order of the calls
ToolOutputs(res, fin) == [i \in 1..Len(fin) |-> res[i]]

\* the calls of the message ToolNode works on (the last one)
PendingCalls == messages[Len(messages)].tool_calls

----------------------------------------------------------------------------
(* What the model may answer *)

ModelOutputs ==
    IF free > 0 THEN UNION {[1..k -> ToolNames] : k \in 0..MaxCalls}
    ELSE {<<>>, <<SqlTool>>}

Running(n) ==
    /\ status = "running"
    /\ node = n
    /\ n \in active
    /\ ~out_of_steps(step)
    /\ Len(messages) < MaxConversation

----------------------------------------------------------------------------
(* The nodes *)

\* agent_reasoning_node, then the conditional edge
agent_reasoning_node(calls) ==
    /\ Running("agent_brain")
    /\ messages' = Update(messages, <<AIMessage(idgen + 1, calls)>>, idgen + 1)
    /\ idgen' = idgen + 1
    /\ node' = conditional_edges[router(messages')]
    /\ active' = Triggered("agent_brain", messages')
    /\ step' = step + 1
    /\ results' = [i \in 1..Len(calls) |-> NoResult]
    /\ finished' = <<>>
    /\ UNCHANGED <<free, status, error, final_response, searchVars, appVars>>
    /\ UNCHANGED handle_tool_errors

\* llm_with_tools.invoke raises: the exception leaves agent.invoke and
\* app.py reports "Falha no Agente AI"
agent_reasoning_raises ==
    /\ Running("agent_brain")
    /\ status' = "failed"
    /\ error' = "LLMError"
    /\ UNCHANGED <<messages, node, active, step, results, finished, idgen, free, final_response, searchVars, appVars>>
    /\ UNCHANGED handle_tool_errors

\* ToolNode runs the calls of the last message in a thread pool: call i ends
ToolCallEnds(i, outcome) ==
    /\ Running("tools_execution")
    /\ i \in 1..Len(PendingCalls)
    /\ results[i] = NoResult
    /\ outcome \in Outcomes(PendingCalls[i].name)
    /\ results' = [results EXCEPT ![i] = RunTool(PendingCalls[i], outcome)]
    /\ finished' = Append(finished, i)
    /\ UNCHANGED <<messages, node, active, step, idgen, free, status, error, final_response, searchVars, appVars>>
    /\ UNCHANGED handle_tool_errors

\* every call has ended: the node returns its messages, or lets an
\* exception through, which ends agent.invoke
ToolNodeReturns ==
    /\ Running("tools_execution")
    /\ Len(finished) = Len(PendingCalls)
    /\ IF \E i \in 1..Len(finished) : results[i] = Raised
       THEN /\ status' = "failed"
            /\ error' = "ToolError"
            /\ UNCHANGED <<messages, node, active, step, idgen, free>>
       ELSE /\ messages' = Update(messages, ToolOutputs(results, finished), idgen)
            /\ idgen' = idgen + CountNoId(ToolOutputs(results, finished))
            /\ node' = AfterTools
            /\ active' = Triggered("tools_execution", messages')
            /\ step' = step + 1
            /\ free' = IF free > 0 THEN free - 1 ELSE 0
            /\ UNCHANGED <<status, error>>
    /\ UNCHANGED <<results, finished>>
    /\ UNCHANGED <<final_response, searchVars, appVars>>
    /\ UNCHANGED handle_tool_errors

\* report_generation_node, then the edge to END
report_generation_node ==
    /\ Running("final_report")
    /\ messages' = Update(messages, <<ReportMessage(idgen + 1)>>, idgen + 1)
    /\ idgen' = idgen + 1
    /\ node' = AfterReport
    /\ active' = Triggered("final_report", messages')
    /\ step' = step + 1
    /\ UNCHANGED <<results, finished, free, status, error, final_response, searchVars, appVars>>
    /\ UNCHANGED handle_tool_errors

\* a plausible slip: the synthesis call wrapped in a try that logs and
\* returns no message, so that the run ends on the last Reasoning message
OnSynthesisError_swallowed == "continue"

\* report_generation_node has no try: the exception leaves the node
OnSynthesisError == "raise"

\* llm.invoke raises in report_generation_node
report_generation_raises ==
    /\ Running("final_report")
    /\ error' = "LLMError"
    /\ IF OnSynthesisError = "raise"
       THEN /\ status' = "failed"
            /\ UNCHANGED <<node, active, step>>
       ELSE /\ node' = AfterReport
            /\ active' = Triggered("final_report", messages)
            /\ step' = step + 1
            /\ UNCHANGED status
    /\ UNCHANGED <<messages, results, finished, idgen, free, final_response, searchVars, appVars>>
    /\ UNCHANGED handle_tool_errors

\* a node is scheduled but the step limit is reached: GraphRecursionError,
\* caught by app.py's except
RecursionAbort ==
    /\ status = "running"
    /\ node \in Nodes
    /\ out_of_steps(step)
    /\ status' = "failed"
    /\ error' = "GraphRecursionError"
    /\ UNCHANGED <<messages, node, active, step, results, finished, idgen, free, final_response, searchVars, appVars>>
    /\ UNCHANGED handle_tool_errors

\* a plausible slip: the message before the last one taken as the report
FinalResponse_before_last(result) == result[Len(result) - 1].content

\* final_response = result["messages"][-1].content
FinalResponse(result) == result[Len(result)].content

\* agent.invoke returns; app.py takes the content of the last message
InvokeReturns ==
    /\ status = "running"
    /\ node = "__end__"
    /\ final_response' = FinalResponse(messages)
    /\ status' = "report"
    /\ UNCHANGED <<messages, node, active, step, results, finished, idgen, free, error, searchVars, appVars>>
    /\ UNCHANGED handle_tool_errors

----------------------------------------------------------------------------
(* The run of app.py's agent.invoke({"messages": [HumanMessage(...)]}) *)

\* settings.DB_PATH does not exist
NoDb == [exists |-> FALSE, has_table |-> FALSE, days |-> {}, nulls |-> FALSE]

\* get_agent_graph() has not returned a tool
NoTool == [built |-> FALSE, max_date |-> <<>>]

\* the page before the display block of app.py ran
NothingShown == [report |-> "", images |-> {}]

\* the links a portal page may list: two resources whose urls end in the
\* same file name, and one with a name of its own (a url is its path
\* segments)
Urls == {<<"r1", "INFLUD21.parquet">>, <<"r2", "INFLUD21.parquet">>,
         <<"r3", "INFLUD22.parquet">>}

\* filename = url.split("/")[-1]
filename(url) == url[Len(url)]

FileNames == {filename(u) : u \in Urls}

\* no file of that name in DATA_DIR
AbsentFile == [exists |-> FALSE, data |-> <<>>]

\* run_downloader() has not been called
DownloadIdle ==
    /\ download_links = <<>>
    /\ tasks = <<>>
    /\ disk = [n \in FileNames |-> AbsentFile]
    /\ runs = 0

\* verify_and_run_etl() has not been called
NoEtl == [db_exists |-> FALSE, parquet_files |-> "unread", ran |-> <<>>, e |-> "none"]

AppIdle ==
    /\ DownloadIdle
    /\ force_rebuild = FALSE
    /\ etl = NoEtl
    /\ stage = "none"
    /\ creds = TRUE
    /\ db = NoDb
    /\ parquet = "none"
    /\ imgs = {}
    /\ data_referencia = <<>>
    /\ sql_tool = NoTool
    /\ df_daily = {}
    /\ shown = NothingShown

SearchIdle ==
    /\ s_pc = "idle"
    /\ tavily = "pending"
    /\ raw_results = <<>>
    /\ chunks = <<>>
    /\ semantic_docs = <<>>
    /\ lexical_docs = <<>>
    /\ branch_ran = {}
    /\ branch_failed = {}
    /\ unique_docs = <<>>
    /\ output = ""

Init ==
    /\ handle_tool_errors \in BOOLEAN
    /\ messages = Update(<<>>, <<HumanMessage(0)>>, 0)
    /\ idgen = 1
    /\ node = "agent_brain"
    /\ active = Triggered("__start__", <<>>)
    /\ step = 0
    /\ results = <<>>
    /\ finished = <<>>
    /\ free = MaxFreeTurns
    /\ status = "running"
    /\ error = "none"
    /\ final_response = ""
    /\ SearchIdle
    /\ AppIdle

Next ==
    \/ \E calls \in ModelOutputs : agent_reasoning_node(calls)
    \/ agent_reasoning_raises
    \/ \E i \in 1..MaxCalls + 1, o \in {"ok", "raise", "invalid"} : ToolCallEnds(i, o)
    \/ ToolNodeReturns
    \/ report_generation_node
    \/ report_generation_raises
    \/ RecursionAbort
    \/ InvokeReturns

Spec == Init /\ [][Next]_vars

\* every call of the run returns (the model call, the tools, the graph's own
\* steps): the run is never left waiting
FairSpec == Spec /\ WF_vars(Next)

----------------------------------------------------------------------------
(* The retrieval tool: create_news_rag_tool's search_process and          *)
(* ToolFactory._hybrid_search                                              *)

\* TavilySearchResults(max_results=5)
max_results == 5

\* search_kwargs={"k": 3} of the semantic retriever
semantic_k == 3

\* bm25_retriever.k = 3
lexical_k == 3

NoNewsText == "Nenhuma notícia encontrada."

EmptyContentText == "Conteúdo das notícias vazio ou ilegível."

NoChunksText == "Não foi possível segmentar o texto das notícias."

Delimiter == "\n\n---\n\n"

Min(a, b) == IF a < b THEN a ELSE b

\* the contents a search result may carry: none (absent or empty), blank
\* (white space only), or one of two short texts
Contents == {"", " ", "a", "b"}

TitleOf == <<"T1", "T2", "T3", "T4", "T5">>

UrlOf == <<"u1", "u2", "u3", "u4", "u5">>

\* the answers of the search provider: up to MaxDocs results, the i-th with
\* its own title and url
RawResults ==
    UNION {{[i \in 1..n |-> [content |-> c[i], url |-> UrlOf[i], title |-> TitleOf[i]]] :
              c \in [1..n -> Contents]} : n \in 0..Min(MaxDocs, max_results)}

\* a plausible slip: the filter on d.get('content') left out
Documents_unfiltered(raw_docs) ==
    [i \in 1..Len(raw_docs) |->
        [page_content |-> raw_docs[i].content,
         source |-> raw_docs[i].url, title |-> raw_docs[i].title]]

\* documents = [Document(...) for d in raw_docs if d.get('content')]
RECURSIVE Documents(_)
Documents(raw_docs) ==
    IF raw_docs = <<>> THEN <<>>
    ELSE LET d == Head(raw_docs)
         IN  (IF d.content # ""
              THEN <<[page_content |-> d.content, source |-> d.url, title |-> d.title]>>
              ELSE <<>>) \o Documents(Tail(raw_docs))

chunk_size == 800

RECURSIVE Repeat(_, _)
Repeat(c, n) ==
    IF n = 0 THEN ""
    ELSE IF n % 2 = 0 THEN LET half == Repeat(c, n \div 2) IN half \o half
    ELSE c \o Repeat(c, n - 1)

\* a paragraph of which two do not fit into one chunk
Paragraph(c) == Repeat(c, chunk_size \div 2 + 1)

\* the letters of the paragraphs of the long texts
LongLetters == <<<<"c", "d">>, <<"e", "f">>, <<"g", "h">>, <<"i", "j">>, <<"k", "l">>>>

\* texts of two paragraphs, longer than chunk_size
LongTexts ==
    [i \in 1..Len(LongLetters) |->
        Paragraph(LongLetters[i][1]) \o "\n\n" \o Paragraph(LongLetters[i][2])]

LongParagraphs ==
    [i \in 1..Len(LongLetters) |->
        <<Paragraph(LongLetters[i][1]), Paragraph(LongLetters[i][2])>>]

\* RecursiveCharacterTextSplitter(chunk_size=800, chunk_overlap=100): a text
\* shorter than chunk_size gives the stripped text, or nothing when only
\* white space is left; a text of two paragraphs that do not fit into one
\* chunk is cut at the blank line, and each paragraph is a chunk
split_text(text) ==
    IF text = " " THEN <<>>
    ELSE IF \E i \in 1..Len(LongTexts) : text = LongTexts[i]
         THEN LongParagraphs[CHOOSE i \in 1..Len(LongTexts) : text = LongTexts[i]]
    ELSE <<text>>

\* splitter.split_documents(documents): each chunk keeps its document's metadata
RECURSIVE split_documents(_)
split_documents(documents) ==
    IF documents = <<>> THEN <<>>
    ELSE LET d == Head(documents)
             texts == split_text(d.page_content)
         IN  [i \in 1..Len(texts) |-> [d EXCEPT !.page_content = texts[i]]]
             \o split_documents(Tail(documents))

\* what a retriever with top-k k may return over n chunks: min(k, n)
\* different chunks, in any order of relevance
Rankings(n, k) ==
    {r \in [1..Min(k, n) -> 1..n] : \A i, j \in 1..Min(k, n) : i # j => r[i] # r[j]}

Retrieved(r) == [i \in 1..Len(r) |-> chunks[r[i]]]

\* a plausible slip: the semantic branch without its try/except
OnSemanticError_raises == "raise"

\* except Exception: semantic_docs = []
OnSemanticError == "empty"

\* a plausible slip: the lexical branch without its try/except
OnLexicalError_raises == "raise"

\* except Exception: lexical_docs = []
OnLexicalError == "empty"

\* a plausible slip: search_process without its try/except
OnSearchError_raises == [pc |-> "raised", output |-> ""]

\* except Exception: return "Erro ao buscar contexto externo."
OnSearchError == [pc |-> "done", output |-> SearchErrorText]

\* a plausible slip: one document per content, placed where the content
\* appears last (a re-ordering of the union)
Fuse_last_position(all_docs) ==
    LET lasts == {i \in 1..Len(all_docs) :
                    \A j \in i + 1..Len(all_docs) :
                        all_docs[j].page_content # all_docs[i].page_content}
        nth(k) == CHOOSE i \in lasts : Cardinality({j \in lasts : j < i}) = k - 1
    IN  [k \in 1..Cardinality(lasts) |-> all_docs[nth(k)]]

\* a plausible slip: the two lists concatenated and not deduplicated
Fuse_all(all_docs) == all_docs

\* {doc.page_content: doc for doc in all_docs}.values(): one document per
\* content, at the place where the content first appears, and it is the last
\* document of that content
Fuse(all_docs) ==
    LET firsts == {i \in 1..Len(all_docs) :
                     \A j \in 1..i - 1 : all_docs[j].page_content # all_docs[i].page_content}
        lastOf(i) == CHOOSE j \in 1..Len(all_docs) :
                        /\ all_docs[j].page_content = all_docs[i].page_content
                        /\ \A l \in j + 1..Len(all_docs) :
                              all_docs[l].page_content # all_docs[i].page_content
        nth(k) == CHOOSE i \in firsts : Cardinality({j \in firsts : j < i}) = k - 1
    IN  [k \in 1..Cardinality(firsts) |-> all_docs[lastOf(nth(k))]]

Block(d) == "Fonte: " \o d.title \o "\nConteúdo: " \o d.page_content

RECURSIVE Join(_, _)
Join(blocks, sep) ==
    IF blocks = <<>> THEN ""
    ELSE IF Len(blocks) = 1 THEN blocks[1]
    ELSE blocks[1] \o sep \o Join(Tail(blocks), sep)

\* context_str of _hybrid_search
context_str(docs) == Join([i \in 1..Len(docs) |-> Block(docs[i])], Delimiter)

SearchReturn(text) ==
    /\ s_pc' = "done"
    /\ output' = text

\* tavily.invoke(query) raises (or hands back its error text, on which
\* _hybrid_search raises): search_process's except answers
TavilyRaises ==
    /\ s_pc = "start"
    /\ tavily' = "failed"
    /\ s_pc' = OnSearchError.pc
    /\ output' = OnSearchError.output
    /\ UNCHANGED <<raw_results, chunks, semantic_docs, lexical_docs, branch_ran,
                   branch_failed, unique_docs, agentVars, appVars>>
    /\ UNCHANGED handle_tool_errors

\* tavily.invoke(query) returns docs; _hybrid_search up to the split
TavilyReturns(docs) ==
    /\ s_pc = "start"
    /\ tavily' = "ok"
    /\ raw_results' = docs
    /\ LET documents == Documents(docs)
       IN  IF docs = <<>> THEN SearchReturn(NoNewsText) /\ UNCHANGED chunks
           ELSE IF documents = <<>> THEN SearchReturn(EmptyContentText) /\ UNCHANGED chunks
           ELSE IF split_documents(documents) = <<>>
                THEN SearchReturn(NoChunksText) /\ UNCHANGED chunks
           ELSE /\ chunks' = split_documents(documents)
                /\ s_pc' = "semantic"
                /\ UNCHANGED output
    /\ UNCHANGED <<semantic_docs, lexical_docs, branch_ran, branch_failed,
                   unique_docs, agentVars, appVars>>
    /\ UNCHANGED handle_tool_errors

\* the semantic branch answers with its top documents
SemanticSearch(r) ==
    /\ s_pc = "semantic"
    /\ semantic_docs' = Retrieved(r)
    /\ branch_ran' = branch_ran \cup {"semantic"}
    /\ s_pc' = "lexical"
    /\ UNCHANGED <<tavily, raw_results, chunks, lexical_docs, branch_failed,
                   unique_docs, output, agentVars, appVars>>
    /\ UNCHANGED handle_tool_errors

\* the embedding or the index raises
SemanticFails ==
    /\ s_pc = "semantic"
    /\ branch_ran' = branch_ran \cup {"semantic"}
    /\ branch_failed' = branch_failed \cup {"semantic"}
    /\ IF OnSemanticError = "empty"
       THEN /\ semantic_docs' = <<>>
            /\ s_pc' = "lexical"
            /\ UNCHANGED output
       ELSE /\ s_pc' = OnSearchError.pc
            /\ output' = OnSearchError.output
            /\ UNCHANGED semantic_docs
    /\ UNCHANGED <<tavily, raw_results, chunks, lexical_docs, unique_docs, agentVars, appVars>>
    /\ UNCHANGED handle_tool_errors

\* fusion, deduplication and formatting: the end of _hybrid_search
FuseAndFormat(lex) ==
    /\ lexical_docs' = lex
    /\ unique_docs' = Fuse(semantic_docs \o lex)
    /\ SearchReturn(context_str(unique_docs'))

\* the lexical branch answers with its top documents
LexicalSearch(r) ==
    /\ s_pc = "lexical"
    /\ branch_ran' = branch_ran \cup {"lexical"}
    /\ FuseAndFormat(Retrieved(r))
    /\ UNCHANGED <<tavily, raw_results, chunks, semantic_docs, branch_failed, agentVars, appVars>>
    /\ UNCHANGED handle_tool_errors

\* BM25 raises
LexicalFails ==
    /\ s_pc = "lexical"
    /\ branch_ran' = branch_ran \cup {"lexical"}
    /\ branch_failed' = branch_failed \cup {"lexical"}
    /\ IF OnLexicalError = "empty"
       THEN FuseAndFormat(<<>>)
       ELSE /\ s_pc' = OnSearchError.pc
            /\ output' = OnSearchError.output
            /\ UNCHANGED <<lexical_docs, unique_docs>>
    /\ UNCHANGED <<tavily, raw_results, chunks, semantic_docs, agentVars, appVars>>
    /\ UNCHANGED handle_tool_errors

\* no graph run: the tool is called on its own
AgentIdle ==
    /\ messages = <<>>
    /\ idgen = 0
    /\ node = "none"
    /\ active = {}
    /\ step = 0
    /\ results = <<>>
    /\ finished = <<>>
    /\ free = 0
    /\ status = "idle"
    /\ error = "none"
    /\ final_response = ""

SearchInit ==
    /\ handle_tool_errors \in BOOLEAN
    /\ AgentIdle
    /\ AppIdle
    /\ s_pc = "start"
    /\ tavily = "pending"
    /\ raw_results = <<>>
    /\ chunks = <<>>
    /\ semantic_docs = <<>>
    /\ lexical_docs = <<>>
    /\ branch_ran = {}
    /\ branch_failed = {}
    /\ unique_docs = <<>>
    /\ output = ""

SearchNext ==
    \/ TavilyRaises
    \/ \E docs \in RawResults : TavilyReturns(docs)
    \/ \E r \in Rankings(Len(chunks), semantic_k) : SemanticSearch(r)
    \/ SemanticFails
    \/ \E r \in Rankings(Len(chunks), lexical_k) : LexicalSearch(r)
    \/ LexicalFails

SearchSpec == SearchInit /\ [][SearchNext]_vars

----------------------------------------------------------------------------
(* The two branches and the fusion of _hybrid_search, on answers whose       *)
(* documents are long enough to give two chunks each                         *)

\* which long text each of n documents carries: all different, or, in an
\* answer of two documents, the same text twice
TextChoices(n) ==
    {[i \in 1..n |-> i]} \cup (IF n = 2 THEN {[i \in 1..n |-> 1]} ELSE {})

LongResults ==
    UNION {{[i \in 1..n |-> [content |-> LongTexts[t[i]], url |-> UrlOf[i], title |-> TitleOf[i]]] :
              t \in TextChoices(n)} : n \in 1..Min(MaxLongDocs, max_results)}

\* _hybrid_search(query, raw_docs) after the split of the documents
FusionInit ==
    /\ handle_tool_errors \in BOOLEAN
    /\ AgentIdle
    /\ AppIdle
    /\ tavily = "ok"
    /\ raw_results \in LongResults
    /\ chunks = split_documents(Documents(raw_results))
    /\ s_pc = "semantic"
    /\ semantic_docs = <<>>
    /\ lexical_docs = <<>>
    /\ branch_ran = {}
    /\ branch_failed = {}
    /\ unique_docs = <<>>
    /\ output = ""

FusionNext ==
    \/ \E r \in Rankings(Len(chunks), semantic_k) : SemanticSearch(r)
    \/ SemanticFails
    \/ \E r \in Rankings(Len(chunks), lexical_k) : LexicalSearch(r)
    \/ LexicalFails

FusionSpec == FusionInit /\ [][FusionNext]_vars

----------------------------------------------------------------------------
(* The data layer: dates, the database file, the raw files *)

\* A date text (a Python str, an SQLite TEXT value) is the sequence of its
\* UTF-8 bytes.

\* Python's None, SQL's NULL: no text
None == <<-1>>

\* the value of a function of one argument: Bind([v \in {x} |-> e]) is e
\* for v the value of x, which is worked out once
Bind(f) == f[CHOOSE x \in DOMAIN f : TRUE]

\* the integer division of C, which cuts toward zero
Trunc(a, b) == IF a >= 0 THEN a \div b ELSE 0 - ((0 - a) \div b)

\* the milliseconds of a day
DayMs == 86400000

\* SQLite's computeJD for a date Y-M-D: the julian day number of the day; a
\* day past the end of its month counts on into the next one
computeJD(Y, M, D) ==
    LET y == IF M <= 2 THEN Y - 1 ELSE Y
        m == IF M <= 2 THEN M + 12 ELSE M
        A == Trunc(y, 100)
        B == 2 - A + Trunc(A, 4)
        X1 == Trunc(36525 * (y + 4716), 100)
        X2 == Trunc(306001 * (m + 1), 10000)
    IN  X1 + X2 + D + B - 1524

\* SQLite's computeYMD: year, month and day of the julian day number Z (its
\* casts cut toward zero, which prints a Feb 29 for Mar 1 in the years 0300,
\* -0100, -0500, ...)
computeYMD(Z) ==
    LET a == Trunc(Z * 100 - 186721625, 3652425)
        A == Z + 1 + a - Trunc(a, 4)
        B == A + 1524
        C == Trunc(B * 100 - 12210, 36525)
        D == Trunc(36525 * C, 100)
        E == Trunc((B - D) * 10000, 306001)
        X1 == Trunc(306001 * E, 10000)
        M == IF E < 14 THEN E - 1 ELSE E - 13
    IN  <<IF M > 2 THEN C - 4716 ELSE C - 4715, M, B - D - X1>>

\* '%Y-%m-%d' of the julian day number Z, as .dt.strftime and SQLite's DATE
\* print it; %Y is four digits, and SQLite puts a minus sign before a year
\* below 0000
strftime(Z) ==
    Bind([ymd \in {computeYMD(Z)} |->
    Bind([y \in {IF ymd[1] < 0 THEN 0 - ymd[1] ELSE ymd[1]} |->
        LET digit(n) == 48 + (n % 10)
        IN  (IF ymd[1] < 0 THEN <<45>> ELSE <<>>)
            \o <<digit(y \div 1000), digit(y \div 100), digit(y \div 10), digit(y), 45,
                 digit(ymd[2] \div 10), digit(ymd[2]), 45,
                 digit(ymd[3] \div 10), digit(ymd[3])>>])])

\* the values data_sintomas takes in the model: the days of 2024, the n-th
\* at index n
Dates ==
    [n \in 1..(computeJD(2025, 1, 1) - computeJD(2024, 1, 1)) |->
        strftime(computeJD(2024, 1, 0) + n)]

IsDate(s) == \E n \in 1..Len(Dates) : Dates[n] = s

DayOf(s) == CHOOSE n \in 1..Len(Dates) : Dates[n] = s

----------------------------------------------------------------------------
(* The arithmetic of C on 64-bit integers, doubles and long doubles. A      *)
(* natural number is the sequence of its digits in base 2^15, the lowest    *)
(* first, with no digit for 0; a floating-point number is m * 2^t, written  *)
(* [m |-> the digits of m, t |-> t], the infinity as 2^1024.                *)

Limb == 2^15

\* the digits of n < 2^31
Limbs(n) ==
    IF n = 0 THEN <<>>
    ELSE IF n < Limb THEN <<n>>
    ELSE IF n < Limb * Limb THEN <<n % Limb, n \div Limb>>
    ELSE <<n % Limb, (n \div Limb) % Limb, n \div (Limb * Limb)>>

\* the i-th digit of a
limb(a, i) == IF i \in 1..Len(a) THEN a[i] ELSE 0

\* the number below 2^31 that a writes
Value(a) == limb(a, 1) + Limb * limb(a, 2) + Limb * Limb * limb(a, 3)

\* a without its leading zero digits
Trim(a) ==
    Bind([v \in {a} |->
        LET nz == {i \in 1..Len(v) : v[i] # 0}
        IN  IF nz = {} THEN <<>>
            ELSE SubSeq(v, 1, CHOOSE i \in nz : \A j \in nz : j <= i)])

\* the number of bits of a
BitLen(a) ==
    IF a = <<>> THEN 0
    ELSE 15 * (Len(a) - 1) + (CHOOSE b \in 1..15 : a[Len(a)] < 2^b /\ a[Len(a)] >= 2^(b - 1))

\* a + b
Add(a, b) ==
    Bind([p \in {<<a, b>>} |->
        LET x(i) == limb(p[1], i) + limb(p[2], i)
            carry(i) == IF \E j \in 1..(i - 1) :
                               x(j) >= Limb /\ \A l \in (j + 1)..(i - 1) : x(l) = Limb - 1
                        THEN 1 ELSE 0
            n == IF Len(p[1]) > Len(p[2]) THEN Len(p[1]) ELSE Len(p[2])
        IN  Trim([i \in 1..(n + 1) |-> (x(i) + carry(i)) % Limb])])

\* a - b for a >= b
Sub(a, b) ==
    Bind([p \in {<<a, b>>} |->
        LET borrow(i) == IF \E j \in 1..(i - 1) :
                                p[1][j] < limb(p[2], j)
                                /\ \A l \in (j + 1)..(i - 1) : p[1][l] = limb(p[2], l)
                         THEN 1 ELSE 0
        IN  Trim([i \in 1..Len(p[1]) |->
                     (p[1][i] - limb(p[2], i) - borrow(i) + Limb) % Limb])])

\* a < b
Less(a, b) ==
    Bind([p \in {<<a, b>>} |->
        \/ Len(p[1]) < Len(p[2])
        \/ /\ Len(p[1]) = Len(p[2])
           /\ \E i \in 1..Len(p[1]) :
                  p[1][i] < p[2][i] /\ \A j \in (i + 1)..Len(p[1]) : p[1][j] = p[2][j]])

\* a * c for c <= 2^15
MulSmall(a, c) ==
    Bind([p \in {<<a, c>>} |->
        Add([i \in 1..Len(p[1]) |-> (p[1][i] * p[2]) % Limb],
            <<0>> \o [i \in 1..Len(p[1]) |-> (p[1][i] * p[2]) \div Limb])])

\* a * b for b < 2^75
Mul(a, b) ==
    Bind([p \in {<<a, b>>} |->
        LET part(j) == [i \in 1..(j - 1) |-> 0] \o MulSmall(p[1], limb(p[2], j))
        IN  Add(Add(part(1), part(2)), Add(Add(part(3), part(4)), part(5)))])

\* a * 2^k
Shl(a, k) ==
    Bind([p \in {<<a, 2^(k % 15)>>} |->
        IF p[1] = <<>> THEN <<>>
        ELSE [i \in 1..(k \div 15) |-> 0]
             \o Trim([i \in 1..(Len(p[1]) + 1) |->
                         ((limb(p[1], i) * p[2]) % Limb) + ((limb(p[1], i - 1) * p[2]) \div Limb)])])

\* a / 2^k, the remainder dropped
Shr(a, k) ==
    Bind([p \in {<<a, 2^(k % 15)>>} |->
        IF Len(p[1]) <= k \div 15 THEN <<>>
        ELSE Trim([i \in 1..(Len(p[1]) - (k \div 15)) |->
                      (limb(p[1], i + (k \div 15)) \div p[2])
                      + (limb(p[1], i + (k \div 15) + 1) % p[2]) * (Limb \div p[2])])])

\* the long division of n by d from the i-th digit of n on, for a d whose
\* highest digit is 2^14 or more: each digit of the quotient is guessed
\* from the two highest digits of what is left and is then at most 2 too
\* large
RECURSIVE Divide(_, _, _)
Divide(n, d, i) ==
    IF i > Len(n) - Len(d) + 1 THEN [q |-> <<>>, r |-> Trim(SubSeq(n, i, Len(n)))]
    ELSE
    Bind([h \in {Divide(n, d, i + 1)} |->
    Bind([u \in {Trim(<<n[i]>> \o h.r)} |->
    Bind([guess \in {(limb(u, Len(d) + 1) * Limb + limb(u, Len(d))) \div d[Len(d)]} |->
    Bind([c \in {CHOOSE g \in (IF guess < Limb THEN guess - 2 ELSE Limb - 3)
                               ..(IF guess < Limb THEN guess ELSE Limb - 1) :
                     /\ g >= 0
                     /\ ~Less(u, MulSmall(d, g))
                     /\ Less(u, MulSmall(d, g + 1))} |->
        [q |-> IF h.q = <<>> /\ c = 0 THEN <<>> ELSE <<c>> \o h.q,
         r |-> Sub(u, MulSmall(d, c))]])])])])

\* n divided by d: quotient and remainder
DivMod(n, d) ==
    Bind([p \in {<<n, d, 15 - BitLen(<<d[Len(d)]>>)>>} |->
    Bind([s \in {<<Shl(p[1], p[3]), Shl(p[2], p[3])>>} |->
    Bind([r \in {Divide(s[1], s[2], 1)} |-> [q |-> r.q, r |-> Shr(r.r, p[3])]])])])

\* N / D * 2^e rounded to p bits, to the nearest, a tie to the even one
Round(N, D, e, p) ==
    Bind([a \in {<<N, D>>} |->
        LET more == p + 3 + BitLen(a[2]) - BitLen(a[1])
            k == IF more > 0 THEN more ELSE 0
        IN
        IF a[1] = <<>> THEN [m |-> <<>>, t |-> 0]
        ELSE
        Bind([d \in {IF a[2] = <<1>> THEN [q |-> Shl(a[1], k), r |-> <<>>]
                     ELSE DivMod(Shl(a[1], k), a[2])} |->
        Bind([h \in {<<Shr(d.q, BitLen(d.q) - p - 1), BitLen(d.q) - p>>} |->
        Bind([m \in {IF /\ h[1][1] % 2 = 1
                        /\ \/ d.r # <<>>
                           \/ (h[1][1] \div 2) % 2 = 1
                           \/ Shl(h[1], h[2] - 1) # d.q
                     THEN Add(Shr(h[1], 1), <<1>>) ELSE Shr(h[1], 1)} |->
            IF BitLen(m) > p THEN [m |-> Shr(m, 1), t |-> e - k + h[2] + 1]
            ELSE [m |-> m, t |-> e - k + h[2]]])])])])

\* the double x + n / 2^j
Plus(x, n, j) ==
    Bind([p \in {<<x, IF x.t < 0 - j THEN x.t ELSE 0 - j>>} |->
        Round(Add(Shl(p[1].m, p[1].t - p[2]), Shl(n, 0 - j - p[2])), <<1>>, p[2], 53)])

\* the double x - n for x >= n
Minus(x, n) ==
    Bind([p \in {<<x, IF x.t < 0 THEN x.t ELSE 0>>} |->
        Round(Sub(Shl(p[1].m, p[1].t - p[2]), Shl(n, 0 - p[2])), <<1>>, p[2], 53)])

\* the double x * n
Times(x, n) == Round(Mul(x.m, n), <<1>>, x.t, 53)

\* (sqlite3_int64)x for a double 0 <= x < 2^63
Floor(x) == IF x.t >= 0 THEN Shl(x.m, x.t) ELSE Shr(x.m, 0 - x.t)

----------------------------------------------------------------------------
(* SQLite's date and time functions (date.c), as DATE(ref_date, '-29 days') *)
(* runs them. The host gives what the text does not: host.now, the clock    *)
(* as <<days, milliseconds>> since noon of -4713-11-24, and host.nan, the   *)
(* integer its processor makes of a double that is no number ("min", the    *)
(* lowest one, or "zero").                                                  *)

\* sqlite3Isspace
Spaces == {9, 10, 11, 12, 13, 32}

\* the i-th byte of z, the 0 that ends a string of C past its end
At(z, i) == IF i \in 1..Len(z) THEN z[i] ELSE 0

\* the first place from i on where z has no byte of cs
Span(z, i, cs) ==
    LET stop == {j \in i..Len(z) : z[j] \notin cs}
    IN  IF stop = {} THEN Len(z) + 1 ELSE CHOOSE j \in stop : \A l \in stop : j <= l

\* SQLite's getDigits for one field: the number the n bytes of z from the
\* i-th on write when they are digits and the number is in lo..hi, else -1
getDigits(z, i, n, lo, hi) ==
    LET RECURSIVE number(_)
        number(k) == IF k = 0 THEN 0 ELSE 10 * number(k - 1) + z[i + k - 1] - 48
    IN  IF (\A k \in 0..(n - 1) : At(z, i + k) \in 48..57) /\ number(n) \in lo..hi
        THEN number(n) ELSE -1

\* SQLite's parseTimezone on z from the i-th byte on: nothing, Z, or
\* (+|-)HH:MM, in minutes
parseTimezone(z, i) ==
    Bind([s \in {Span(z, i, Spaces)} |->
        LET hh == getDigits(z, s + 1, 2, 0, 14)
            mm == getDigits(z, s + 4, 2, 0, 59)
        IN  IF s > Len(z) THEN [ok |-> TRUE, tz |-> 0]
            ELSE IF z[s] \in {90, 122}
                 THEN [ok |-> Span(z, s + 1, Spaces) > Len(z), tz |-> 0]
            ELSE IF z[s] \in {43, 45} /\ hh >= 0 /\ At(z, s + 3) = 58 /\ mm >= 0
                 THEN [ok |-> Span(z, s + 6, Spaces) > Len(z),
                       tz |-> (IF z[s] = 45 THEN -1 ELSE 1) * (mm + hh * 60)]
            ELSE [ok |-> FALSE, tz |-> 0]])

\* the loop of parseHhMmSs over the digits lo..hi of a fraction:
\* ms = ms*10.0 + digit - '0' and rScale *= 10.0
RECURSIVE Fraction(_, _, _, _)
Fraction(z, lo, hi, f) ==
    IF lo < hi
    THEN Bind([g \in {Fraction(z, lo, (lo + hi) \div 2, f)} |->
             Fraction(z, (lo + hi) \div 2 + 1, hi, g)])
    ELSE Bind([a \in {Times(f.ms, Limbs(10))} |->
         Bind([b \in {IF a.t >= 8 THEN a ELSE Plus(a, Limbs(z[lo]), 0)} |->
             [ms |-> IF b.t >= 8 THEN b ELSE Minus(b, Limbs(48)),
              rScale |-> Times(f.rScale, Limbs(10))]])])

\* SQLite's parseHhMmSs on z from the i-th byte on: HH:MM, HH:MM:SS or
\* HH:MM:SS.FFF and a time zone; the milliseconds since midnight, those of
\* the time zone taken off. The seconds are the double s + ms / rScale, and
\* their milliseconds (sqlite3_int64)(s*1000 + 0.5); a quotient below 2^-64
\* adds nothing. Past 308 digits ms and rScale are both infinite and the
\* seconds no number: min says that the host makes the lowest integer of it.
parseHhMmSs(z, i, host) ==
    LET h == getDigits(z, i, 2, 0, 24)
        m == getDigits(z, i + 3, 2, 0, 59)
        s == getDigits(z, i + 6, 2, 0, 59)
        hasS == At(z, i + 5) = 58
        hasF == hasS /\ At(z, i + 8) = 46 /\ At(z, i + 9) \in 48..57
        inf(x) == x.t + BitLen(x.m) > 1024
        zero == [m |-> <<>>, t |-> 0]
    IN
    Bind([after \in {IF hasF THEN Span(z, i + 9, 48..57) ELSE IF hasS THEN i + 8 ELSE i + 5} |->
    Bind([zone \in {parseTimezone(z, after)} |->
        IF h >= 0 /\ At(z, i + 2) = 58 /\ m >= 0 /\ (hasS => s >= 0) /\ zone.ok
        THEN
        Bind([sec \in {IF ~hasF THEN [nan |-> FALSE, ms |-> IF hasS THEN s * 1000 ELSE 0]
                       ELSE
                       Bind([f \in {Fraction(z, i + 9, after - 1,
                                             [ms |-> zero, rScale |-> [m |-> <<1>>, t |-> 0]])} |->
                       Bind([q \in {IF inf(f.rScale) THEN zero
                                    ELSE Round(f.ms.m, f.rScale.m, f.ms.t - f.rScale.t, 53)} |->
                           IF inf(f.ms) /\ inf(f.rScale) THEN [nan |-> TRUE, ms |-> 0]
                           ELSE [nan |-> FALSE,
                                 ms |-> Value(Floor(Plus(Times(Plus(IF q.t < -117 THEN zero ELSE q,
                                                                    Limbs(s), 0),
                                                               Limbs(1000)), <<1>>, 1)))]])])} |->
            [ok |-> TRUE, min |-> sec.nan /\ host.nan = "min",
             ms |-> h * 3600000 + m * 60000 + sec.ms - zone.tz * 60000]])
        ELSE [ok |-> FALSE, min |-> FALSE, ms |-> 0]])])

\* SQLite's parseYyyyMmDd and computeJD: [-]YYYY-MM-DD, then nothing or a
\* time; the days and milliseconds since noon of -4713-11-24
parseYyyyMmDd(z, host) ==
    LET i == IF At(z, 1) = 45 THEN 2 ELSE 1
        Y == getDigits(z, i, 4, 0, 9999)
        M == getDigits(z, i + 5, 2, 1, 12)
        D == getDigits(z, i + 8, 2, 1, 31)
        year == IF i = 2 THEN 0 - Y ELSE Y
    IN  IF Y >= 0 /\ At(z, i + 4) = 45 /\ M >= 0 /\ At(z, i + 7) = 45 /\ D >= 0
        THEN
        Bind([t \in {Span(z, i + 10, Spaces \cup {84})} |->
        Bind([time \in {parseHhMmSs(z, t, host)} |->
            LET ms == (IF time.ok THEN time.ms ELSE 0) - DayMs \div 2
            IN  IF (time.ok \/ t > Len(z)) /\ year >= -4713
                THEN [ok |-> TRUE, min |-> time.ok /\ time.min,
                      day |-> computeJD(year, M, D) + (ms \div DayMs), ms |-> ms % DayMs]
                ELSE [ok |-> FALSE, min |-> FALSE, day |-> 0, ms |-> 0]])])
        ELSE [ok |-> FALSE, min |-> FALSE, day |-> 0, ms |-> 0]

\* a long double times a long double
TimesLD(x, y) == Round(Mul(x.m, y.m), <<1>>, x.t + y.t, 64)

\* sqlite3Pow10: 10^E as a long double, by squaring
RECURSIVE Pow10(_, _, _)
Pow10(E, x, r) ==
    Bind([s \in {<<IF E % 2 = 1 THEN TimesLD(r, x) ELSE r,
                   IF E \div 2 = 0 THEN x ELSE TimesLD(x, x)>>} |->
        IF E \div 2 = 0 THEN s[1] ELSE Pow10(E \div 2, s[2], s[1])])

\* sqlite3AtoF: the double a text writes (spaces, sign, digits, point,
\* digits, exponent, spaces). The digits go into a 64-bit integer s as long
\* as it is below (LARGEST_INT64 - 9) / 10, the others only move the
\* exponent; the double is s * 10^e or s / 10^e, the power and the quotient
\* worked out as long doubles and stored in a double; neg is the sign of
\* the text, of a zero too.
AtoF(z) ==
    LET limit == Add(Mul(Limbs(922337203), Limbs(1000000000)), Limbs(685477579))
        \* the number the digits lo..hi of ds write, at most 9 of them
        RECURSIVE number(_, _, _)
        number(ds, lo, hi) == IF lo > hi THEN 0 ELSE 10 * number(ds, lo, hi - 1) + ds[hi] - 48
        \* 10^n for n <= 27
        pow(n) == Mul(Mul(Limbs(10^(IF n < 9 THEN n ELSE 9)),
                          Limbs(10^(IF n < 9 THEN 0 ELSE IF n < 18 THEN n - 9 ELSE 9))),
                      Limbs(10^(IF n < 18 THEN 0 ELSE n - 18)))
        \* the same for at most 19 of them
        natural(ds, n) ==
            IF n <= 9 THEN Limbs(number(ds, 1, n))
            ELSE IF n <= 18
                 THEN Add(Mul(Limbs(number(ds, 1, 9)), pow(n - 9)), Limbs(number(ds, 10, n)))
            ELSE Add(Mul(Add(Mul(Limbs(number(ds, 1, 9)), pow(9)), Limbs(number(ds, 10, 18))),
                         pow(1)), Limbs(ds[19] - 48))
        \* the exponent: e = e < 10000 ? e*10 + digit : 10000
        exponent(ds) ==
            Bind([first \in {Span(ds, 1, {48})} |->
                IF Len(ds) - first + 1 <= 5 THEN number(ds, first, Len(ds)) ELSE 10000])
        one == [m |-> <<1>>, t |-> 0]
        zero == [m |-> <<>>, t |-> 0]
        pow10(E) == Pow10(E, [m |-> Limbs(10), t |-> 0], one)
        quotient(s, E) ==
            Bind([scale \in {pow10(E)} |->
            Bind([q \in {Round(s, scale.m, 0 - scale.t, 64)} |-> Round(q.m, <<1>>, q.t, 53)])])
        \* s * scale in long double, stored in a double
        product(s, E) ==
            Bind([scale \in {pow10(E)} |->
            Bind([q \in {Round(Mul(s, scale.m), <<1>>, scale.t, 64)} |-> Round(q.m, <<1>>, q.t, 53)])])
        infinity == [m |-> <<1>>, t |-> 1024]
        \* a double past the largest one is the infinity
        finite(x) == IF x.t + BitLen(x.m) > 1024 THEN infinity ELSE x
        \* 1.0e+308
        e308 == Add(Mul(Limbs(5010420), Limbs(1000000000)), Limbs(900022432))
        \* x / 1.0e+308 as a double: 53 bits when the quotient is a normal
        \* number (2^-1022 or more), a multiple of 2^-1074 below that
        tiny(x) ==
            Bind([normal \in {Round(x.m, e308, x.t - 971, 53)} |->
            IF normal.t >= -1074 THEN normal
            ELSE
            Bind([a \in {<<x.m, e308, x.t - 971 + 1074>>} |->
            Bind([b \in {<<Shl(a[1], IF a[3] > 0 THEN a[3] ELSE 0),
                           Shl(a[2], IF a[3] < 0 THEN 0 - a[3] ELSE 0)>>} |->
            Bind([d \in {DivMod(b[1], b[2])} |->
            Bind([twice \in {Add(d.r, d.r)} |->
                [m |-> IF Less(b[2], twice) \/ (twice = b[2] /\ limb(d.q, 1) % 2 = 1)
                       THEN Add(d.q, <<1>>) ELSE d.q,
                 t |-> -1074]])])])])])
        \* the zeros at the end of s that e lets take off
        zeros(s, e) ==
            Cardinality({j \in 1..(IF e < 19 THEN e ELSE 19) :
                            DivMod(s, pow(j)).r = <<>>})
        double(s, E) ==
            IF s = <<>> THEN zero
            ELSE IF E >= 0
                 THEN Bind([n \in {Cardinality({i \in 0..((IF E < 19 THEN E ELSE 19) - 1) :
                                                  Less(Mul(s, pow(i)), Add(limit, <<1>>))})} |->
                      Bind([r \in {Mul(s, pow(n))} |->
                          IF E - n = 0 THEN Round(r, <<1>>, 0, 53)
                          ELSE IF E - n <= 307 THEN finite(product(r, E - n))
                          ELSE infinity])])
            ELSE Bind([n \in {zeros(s, 0 - E)} |->
                 Bind([r \in {IF n = 0 THEN s ELSE DivMod(s, pow(n)).q} |->
                     IF 0 - E - n = 0 THEN Round(r, <<1>>, 0, 53)
                     ELSE IF 0 - E - n <= 307 THEN quotient(r, 0 - E - n)
                     ELSE IF 0 - E - n < 342 THEN tiny(quotient(r, 0 - E - n - 308))
                     ELSE zero])])
    IN
    Bind([a \in {Span(z, 1, Spaces)} |->
    Bind([ip \in {<<IF At(z, a) \in {43, 45} THEN a + 1 ELSE a,
                    Span(z, IF At(z, a) \in {43, 45} THEN a + 1 ELSE a, 48..57)>>} |->
    Bind([c \in {IF At(z, ip[2]) = 46 THEN Span(z, ip[2] + 1, 48..57) ELSE ip[2]} |->
    Bind([ex \in {<<IF At(z, c) \in {69, 101}
                    THEN (IF At(z, c + 1) \in {43, 45} THEN c + 2 ELSE c + 1) ELSE c,
                    IF At(z, c) \in {69, 101}
                    THEN Span(z, IF At(z, c + 1) \in {43, 45} THEN c + 2 ELSE c + 1, 48..57) ELSE c>>} |->
        IF /\ (ip[2] - ip[1]) + (IF c > ip[2] THEN c - ip[2] - 1 ELSE 0) > 0
           /\ At(z, c) \in {69, 101} => ex[2] > ex[1]
           /\ Span(z, ex[2], Spaces) > Len(z)
        THEN
        Bind([ds \in {SubSeq(z, ip[1], ip[2] - 1) \o SubSeq(z, ip[2] + 1, c - 1)} |->
        Bind([first \in {Span(ds, 1, {48})} |->
        Bind([n \in {IF Len(ds) - first + 1 <= 18 THEN Len(ds) - first + 1
                     ELSE IF Less(natural(SubSeq(ds, first, first + 17), 18), limit) THEN 19 ELSE 18} |->
        Bind([r \in {double(natural(SubSeq(ds, first, first + n - 1), n),
                            (IF At(z, c + 1) = 45 THEN -1 ELSE 1)
                            * (IF ex[2] > ex[1] THEN exponent(SubSeq(z, ex[1], ex[2] - 1)) ELSE 0)
                            + (ip[2] - ip[1]) - (first - 1 + n))} |->
            [ok |-> TRUE, neg |-> At(z, a) = 45, m |-> r.m, t |-> r.t]])])])])
        ELSE [ok |-> FALSE, neg |-> FALSE, m |-> <<>>, t |-> 0]])])])])

\* SQLite's setRawDateNumber: a double r with 0 <= r < 5373484.5 is a julian
\* day, (sqlite3_int64)(r*86400000.0 + 0.5) milliseconds
setRawDateNumber(r) ==
    IF r.m = <<>> \/ (~r.neg /\ r.t + BitLen(r.m) < -30)
    THEN [ok |-> TRUE, min |-> FALSE, day |-> 0, ms |-> 0]
    ELSE IF r.neg \/ r.t + BitLen(r.m) > 23
            \/ ~Less(Floor([m |-> r.m, t |-> r.t + 1]), Limbs(10746969))
    THEN [ok |-> FALSE, min |-> FALSE, day |-> 0, ms |-> 0]
    ELSE Bind([d \in {DivMod(Floor(Plus(Times(r, Limbs(DayMs)), <<1>>, 1)), Limbs(DayMs))} |->
             [ok |-> TRUE, min |-> FALSE, day |-> Value(d.q), ms |-> Value(d.r)]])

\* SQLite's parseDateOrTime: a date with or without a time, a time of
\* 2000-01-01, 'now', or a number, the julian day
parseDateOrTime(z, host) ==
    Bind([date \in {parseYyyyMmDd(z, host)} |->
        IF date.ok THEN date
        ELSE
        Bind([time \in {parseHhMmSs(z, 1, host)} |->
            IF time.ok
            THEN [ok |-> TRUE, min |-> time.min,
                  day |-> computeJD(2000, 1, 1) + ((time.ms - DayMs \div 2) \div DayMs),
                  ms |-> (time.ms - DayMs \div 2) % DayMs]
            ELSE IF Len(z) = 3 /\ z[1] \in {110, 78} /\ z[2] \in {111, 79} /\ z[3] \in {119, 87}
                 THEN [ok |-> TRUE, min |-> FALSE, day |-> host.now[1], ms |-> host.now[2]]
            ELSE Bind([r \in {AtoF(z)} |->
                     IF r.ok THEN setRawDateNumber(r)
                     ELSE [ok |-> FALSE, min |-> FALSE, day |-> 0, ms |-> 0]])])])

\* SQLite's DATE(s, '-k days') ('+n days' for k = -n): NULL when s is NULL
\* or no time value, when k is not below 5373485, or when the result leaves
\* the days SQLite counts (noon of -4713-11-24 to the end of 9999-12-31);
\* else the date k days before s. The text s ends at its first 0 byte.
DATE(s, k, host) ==
    IF s = None THEN None
    ELSE
    Bind([z \in {SubSeq(s, 1, Span(s, 1, 1..255) - 1)} |->
    Bind([p \in {parseDateOrTime(z, host)} |->
        IF /\ p.ok /\ ~p.min
           /\ k < 5373485 /\ 0 - k < 5373485
           /\ p.day - k >= 0
           /\ p.day - k < 5373484 \/ (p.day - k = 5373484 /\ p.ms < DayMs \div 2)
        THEN strftime(p.day - k + ((p.ms + DayMs \div 2) \div DayMs))
        ELSE None])])

\* a <= b as SQLite compares two texts: by the first byte that differs, else
\* by length
TextLE(a, b) ==
    Bind([p \in {<<a, b>>} |->
        LET differ == {i \in 1..(IF Len(p[1]) < Len(p[2]) THEN Len(p[1]) ELSE Len(p[2])) :
                          p[1][i] # p[2][i]}
        IN  IF differ = {} THEN Len(p[1]) <= Len(p[2])
            ELSE \E i \in differ : p[1][i] < p[2][i] /\ \A j \in differ : i <= j])

\* a database file with the table casos_srag: the days of symptoms that have
\* rows, and whether there are rows whose data_sintomas is NULL
Table(days, nulls) == [exists |-> TRUE, has_table |-> TRUE, days |-> days, nulls |-> nulls]

\* a database file that holds no table casos_srag
EmptyFile == [exists |-> TRUE, has_table |-> FALSE, days |-> {}, nulls |-> FALSE]

\* the latest days of the tables of the model: LastDay and the day before,
\* and the two days four months earlier (2024-03-01 and 2024-02-29, with
\* the leap day inside the 30 days before them)
EndDays == {LastDay - 1, LastDay, LastDay - 122, LastDay - 121}

\* the tables of the model: no dated row at all, or one row or more per day
\* over a stretch of days that ends at one of EndDays
Tables ==
    {Table({}, n) : n \in BOOLEAN}
    \cup {Table((hs[1] - hs[2])..hs[1], n) :
            hs \in EndDays \X ({0} \cup ((MaxSpan - 3)..MaxSpan)),
            n \in BOOLEAN}

DbStates == {NoDb, EmptyFile} \cup Tables

SetMax(S) == CHOOSE x \in S : \A y \in S : y <= x

\* SELECT MAX(data_sintomas) FROM casos_srag, on a file that has the table
select_max_date(dbv) == IF dbv.days = {} THEN None ELSE Dates[SetMax(dbv.days)]

\* the query cannot run: no file (mode=ro does not create it), or no table
query_fails(dbv) == ~dbv.exists \/ ~dbv.has_table

\* "2024-01-01"
FallbackDate == strftime(computeJD(2024, 1, 1))

\* app.py get_latest_db_date
get_latest_db_date(dbv) ==
    IF query_fails(dbv) THEN FallbackDate
    ELSE IF select_max_date(dbv) # None THEN select_max_date(dbv)
    ELSE FallbackDate

\* "data desconhecida"
UnknownDate == <<100, 97, 116, 97, 32, 100, 101, 115, 99, 111, 110, 104, 101, 99, 105, 100, 97>>

\* tools.py ToolFactory._get_db_max_date
get_db_max_date(dbv) ==
    IF query_fails(dbv) THEN UnknownDate
    ELSE IF select_max_date(dbv) # None THEN select_max_date(dbv)
    ELSE UnknownDate

\* a plausible slip: no date in the table is logged and not raised
get_max_date_lenient(dbv) ==
    IF query_fails(dbv) THEN [raised |-> TRUE, value |-> None]
    ELSE [raised |-> FALSE, value |-> select_max_date(dbv)]

\* plotter.py ChartGenerator._get_max_date: raises when the query fails and
\* when there is no date
get_max_date(dbv) ==
    IF query_fails(dbv) THEN [raised |-> TRUE, value |-> None]
    ELSE IF select_max_date(dbv) = None THEN [raised |-> TRUE, value |-> None]
    ELSE [raised |-> FALSE, value |-> select_max_date(dbv)]

\* the offset of the daily chart's query: DATE(ref_date, '-29 days')
daily_offset == 29

\* the hosts of the model: two clocks, noon of 2024-06-30 and of 2026-01-01,
\* and the two integers a processor makes of a double that is no number
Hosts ==
    [now : {<<computeJD(2024, 6, 30), 0>>, <<computeJD(2026, 1, 1), 0>>},
     nan : {"min", "zero"}]

\* a plausible slip: the window counted back from the clock, DATE('now', ...)
query_daily_from_now(dbv, host) ==
    Bind([q \in {<<get_max_date(dbv), DATE(<<110, 111, 119>>, daily_offset, host),
                   DATE(<<110, 111, 119>>, 0, host)>>} |->
        IF q[1].raised THEN [raised |-> TRUE, days |-> {}]
        ELSE [raised |-> FALSE,
              days |-> {d \in dbv.days : TextLE(q[2], Dates[d]) /\ TextLE(Dates[d], q[3])}]])

\* generate_charts, from ref_date = self._get_max_date(conn) to df_daily:
\* it raises with _get_max_date; else the days query_daily selects on the
\* same connection, data_sintomas BETWEEN DATE(ref_date, '-29 days') AND
\* ref_date, compared as texts; no row when DATE gives NULL
query_daily(dbv, host) ==
    Bind([ref_date \in {get_max_date(dbv)} |->
        IF ref_date.raised THEN [raised |-> TRUE, days |-> {}]
        ELSE Bind([first \in {DATE(ref_date.value, daily_offset, host)} |->
                 [raised |-> FALSE,
                  days |-> IF first = None THEN {}
                           ELSE {d \in dbv.days : TextLE(first, Dates[d])
                                                  /\ TextLE(Dates[d], ref_date.value)}]])])

img_daily == "grafico_diario.png"

img_monthly == "grafico_mensal.png"

----------------------------------------------------------------------------
(* The stages of app.py's main() *)

\* what run_downloader() leaves in DATA_DIR when there was no *.parquet file:
\* nothing (no link found, or every request failed), files that can be read,
\* only files that cannot be read (a download cut short), or it raises
DownloadOutcomes == {"none", "readable", "unreadable", "raise"}

\* how DataProcessor.run() may end once it has read a file: it writes the
\* table; the transformation raises; or to_sql raises, after
\* sqlite3.connect() and before it touched the table, after it dropped the
\* old table, or while it inserts into the new one
ProcessorOutcomes ==
    {"ok", "raise", "raise_to_sql", "raise_after_drop", "raise_in_insert"}

\* DataProcessor.run(): with no file that can be read it logs a warning and
\* returns; else it transforms (which may raise), opens the database, which
\* creates the file, and writes the table with to_sql(if_exists="replace"),
\* whose DROP and CREATE stay when the rows that follow are rolled back
run_processor(dbv, files, pr, t) ==
    IF files # "readable" THEN [raised |-> FALSE, db |-> dbv]
    ELSE IF pr = "raise" THEN [raised |-> TRUE, db |-> dbv]
    ELSE IF pr = "raise_to_sql"
         THEN [raised |-> TRUE, db |-> IF dbv.exists THEN dbv ELSE EmptyFile]
    ELSE IF pr = "raise_after_drop" THEN [raised |-> TRUE, db |-> EmptyFile]
    ELSE IF pr = "raise_in_insert" THEN [raised |-> TRUE, db |-> Table({}, FALSE)]
    ELSE [raised |-> FALSE, db |-> t]

\* a plausible slip: the early return taken whenever the file exists
skip_etl_ignoring_force(db_exists, force) == db_exists

\* if db_exists and not force_rebuild: return
skip_etl(db_exists, force) == db_exists /\ ~force

\* verify_and_run_etl(force_rebuild): what it leaves on disk, whether it
\* raised, and its locals: db_exists, parquet_files ("unread" when the glob
\* was not reached), ran, the modules it called, in the order of the calls,
\* and e, the module whose exception it re-raised
verify_and_run_etl(dbv, files, dl, pr, t, force) ==
    IF skip_etl(dbv.exists, force)
    THEN [raised |-> FALSE, db |-> dbv, parquet |-> files,
          locals |-> [db_exists |-> dbv.exists, parquet_files |-> "unread", ran |-> <<>>,
                      e |-> "none"]]
    ELSE IF files = "none" /\ dl = "raise"
         THEN [raised |-> TRUE, db |-> dbv, parquet |-> files,
               locals |-> [db_exists |-> dbv.exists, parquet_files |-> files,
                           ran |-> <<"run_downloader">>, e |-> "run_downloader"]]
    ELSE LET found == IF files = "none" THEN dl ELSE files
             processed == run_processor(dbv, found, pr, t)
         IN  [raised |-> processed.raised, db |-> processed.db, parquet |-> found,
              locals |-> [db_exists |-> dbv.exists, parquet_files |-> files,
                          ran |-> (IF files = "none" THEN <<"run_downloader">> ELSE <<>>)
                                  \o <<"run_processor">>,
                          e |-> IF processed.raised THEN "run_processor" ELSE "none"]]

\* a plausible slip: the tool built without looking for the file
create_sql_tool_unchecked(dbv) ==
    [raised |-> FALSE,
     tool |-> [built |-> TRUE, max_date |-> get_db_max_date(dbv)]]

\* ToolFactory.create_sql_tool(): FileNotFoundError when the file is absent;
\* else the tool, whose system prompt names max_date as "hoje"
create_sql_tool(dbv) ==
    IF ~dbv.exists THEN [raised |-> TRUE, tool |-> NoTool]
    ELSE [raised |-> FALSE,
          tool |-> [built |-> TRUE, max_date |-> get_db_max_date(dbv)]]

\* the first line of prompt_dinamico: the words and the date put into them
prompt_dinamico(date) == <<"DATA DE REFERÊNCIA DO SISTEMA (\"HOJE\"): ", date>>

\* a plausible slip: a fixed task prompt, with no date put into it
TaskMessage_static(id, date) == [HumanMessage(id) EXCEPT !.content = prompt_dinamico(<<>>)]

\* HumanMessage(content=prompt_dinamico)
TaskMessage(id, date) == [HumanMessage(id) EXCEPT !.content = prompt_dinamico(date)]

\* the statements the SQL agent's query tool runs on sqlite:///DB_PATH that
\* change the schema or the data
MutatingStatements == {"DELETE", "DROP"}

\* the database after the statement ran
execute(dbv, stmt) ==
    IF ~dbv.has_table THEN dbv
    ELSE IF stmt = "DELETE" THEN Table({}, FALSE)
    ELSE IF stmt = "DROP" THEN EmptyFile
    ELSE dbv

\* a plausible slip: the except of the chart stage without its return
OnChartError_continues == "continue"

\* except Exception: st.error(...); status.update(state="error"); return
OnChartError == "abort"

\* from config.settings import settings: Settings() needs both keys
LoadSettings ==
    /\ stage = "import"
    /\ IF creds
       THEN stage' = "etl" /\ UNCHANGED error
       ELSE stage' = "crashed" /\ error' = "ValidationError"
    /\ UNCHANGED <<messages, node, active, step, results, finished, idgen, free, status,
                   final_response, searchVars, downloadVars, creds, force_rebuild, etl, db, parquet, imgs,
                   data_referencia, sql_tool, df_daily, shown>>
    /\ UNCHANGED handle_tool_errors

\* 1. Camada de Dados: verify_and_run_etl() and get_latest_db_date()
RunETL(dl, pr, t) ==
    /\ stage = "etl"
    /\ LET r == verify_and_run_etl(db, parquet, dl, pr, t, force_rebuild)
       IN  /\ parquet' = r.parquet
           /\ etl' = r.locals
           /\ db' = r.db
           /\ IF r.raised
              THEN /\ stage' = "aborted"
                   /\ error' = "ETLError"
                   /\ UNCHANGED data_referencia
              ELSE /\ stage' = "charts"
                   /\ data_referencia' = get_latest_db_date(r.db)
                   /\ UNCHANGED error
    /\ UNCHANGED <<messages, node, active, step, results, finished, idgen, free, status,
                   final_response, searchVars, downloadVars, creds, force_rebuild, imgs, sql_tool, df_daily, shown>>
    /\ UNCHANGED handle_tool_errors

ChartFault ==
    /\ error' = "ChartError"
    /\ stage' = IF OnChartError = "abort" THEN "aborted" ELSE "graph"

\* 2. Camada de Visualização: run_plotter(); both charts are saved, or
\* savefig raises on the daily chart, with no image written, or on the
\* monthly one, once the daily chart is written
RunPlotter(outcome, host) ==
    /\ stage = "charts"
    /\ IF ~db.exists
       THEN /\ stage' = "graph"
            /\ UNCHANGED <<imgs, df_daily, error>>
       ELSE LET ref_date == get_max_date(db)
                daily == query_daily(db, host).days
                saved_daily == IF daily # {} THEN {img_daily} ELSE {}
                saved_monthly == IF IsDate(ref_date.value) THEN {img_monthly} ELSE {}
            IN  IF ref_date.raised
                THEN ChartFault /\ UNCHANGED <<imgs, df_daily>>
                ELSE /\ df_daily' = daily
                     /\ IF outcome = "raise_daily" /\ saved_daily # {}
                        THEN /\ UNCHANGED imgs
                             /\ ChartFault
                        ELSE IF outcome = "raise_monthly" /\ saved_monthly # {}
                        THEN /\ imgs' = imgs \cup saved_daily
                             /\ ChartFault
                        ELSE /\ imgs' = imgs \cup saved_daily \cup saved_monthly
                             /\ stage' = "graph"
                             /\ UNCHANGED error
    /\ UNCHANGED <<messages, node, active, step, results, finished, idgen, free, status,
                   final_response, searchVars, downloadVars, creds, force_rebuild, etl, db, parquet, data_referencia,
                   sql_tool, shown>>
    /\ UNCHANGED handle_tool_errors

\* 3. Camada de Inteligência: get_agent_graph(), the prompt, and agent.invoke
\* up to the entry of the graph; from here the model's turns are not free
StartAgent ==
    /\ stage = "graph"
    /\ LET made == create_sql_tool(db)
       IN  IF made.raised
           THEN /\ stage' = "aborted"
                /\ error' = "FileNotFoundError"
                /\ UNCHANGED <<messages, node, active, step, results, finished, idgen, free,
                               status, sql_tool>>
           ELSE /\ sql_tool' = made.tool
                /\ stage' = "agent"
                /\ messages' = Update(<<>>, <<TaskMessage(0, data_referencia)>>, 0)
                /\ idgen' = 1
                /\ node' = "agent_brain"
                /\ active' = Triggered("__start__", <<>>)
                /\ step' = 0
                /\ results' = <<>>
                /\ finished' = <<>>
                /\ free' = 0
                /\ status' = "running"
                /\ UNCHANGED error
    /\ UNCHANGED <<final_response, searchVars, downloadVars, creds, force_rebuild, etl, db, parquet, imgs,
                   data_referencia, df_daily, shown>>
    /\ UNCHANGED handle_tool_errors

\* the SQL agent runs a statement that changes the table; the call goes on
\* (the agent waits for its model again) and ends in ToolCallEnds
SqlToolMutates(i, stmt) ==
    /\ Running("tools_execution")
    /\ sql_tool.built
    /\ i \in 1..Len(PendingCalls)
    /\ results[i] = NoResult
    /\ PendingCalls[i].name = SqlTool
    /\ stmt \in MutatingStatements
    /\ db' = execute(db, stmt)
    /\ UNCHANGED <<messages, node, active, step, results, finished, idgen, free, status, error, final_response,
                   searchVars, downloadVars, stage, creds, force_rebuild, etl, parquet, imgs, data_referencia,
                   sql_tool, df_daily, shown>>
    /\ UNCHANGED handle_tool_errors

\* Exibição dos Resultados: reached when no stage returned early
Display ==
    /\ stage = "agent"
    /\ status = "report"
    /\ shown' = [report |-> final_response,
                 images |-> {f \in {img_daily, img_monthly} : f \in imgs}]
    /\ stage' = "done"
    /\ UNCHANGED <<agentVars, searchVars, downloadVars, creds, force_rebuild, etl, db, parquet, imgs, data_referencia,
                   sql_tool, df_daily>>
    /\ UNCHANGED handle_tool_errors

\* the page is loaded and the button is pressed, on any state of the files
AppInit ==
    /\ handle_tool_errors \in BOOLEAN
    /\ DownloadIdle
    /\ AgentIdle
    /\ SearchIdle
    /\ force_rebuild = FALSE
    /\ etl = NoEtl
    /\ stage = "import"
    /\ creds \in BOOLEAN
    /\ db \in DbStates
    /\ parquet \in (IF db.exists THEN {"none"} ELSE {"none", "readable", "unreadable"})
    /\ imgs \in {{}, {img_daily, img_monthly}}
    /\ data_referencia = <<>>
    /\ sql_tool = NoTool
    /\ df_daily = {}
    /\ shown = NothingShown

AgentNext ==
    \/ \E calls \in ModelOutputs : agent_reasoning_node(calls)
    \/ agent_reasoning_raises
    \/ \E i \in 1..MaxCalls + 1, o \in {"ok", "raise", "invalid"} : ToolCallEnds(i, o)
    \/ \E i \in 1..MaxCalls + 1, stmt \in MutatingStatements : SqlToolMutates(i, stmt)
    \/ ToolNodeReturns
    \/ report_generation_node
    \/ report_generation_raises
    \/ RecursionAbort
    \/ InvokeReturns
    \/ Display

AppNext ==
    \/ LoadSettings
    \/ /\ stage = "etl"
       /\ \E dl \in DownloadOutcomes, pr \in ProcessorOutcomes, t \in Tables : RunETL(dl, pr, t)
    \/ /\ stage = "charts"
       /\ \E outcome \in {"ok", "raise_daily", "raise_monthly"}, host \in Hosts :
             RunPlotter(outcome, host)
    \/ StartAgent
    \/ AgentNext

AppSpec == AppInit /\ [][AppNext]_vars

\* verify_and_run_etl(force_rebuild) called on its own
EtlCall(dl, pr, t) ==
    /\ stage = "etl_call"
    /\ LET r == verify_and_run_etl(db, parquet, dl, pr, t, force_rebuild)
       IN  /\ parquet' = r.parquet
           /\ db' = r.db
           /\ etl' = r.locals
           /\ stage' = IF r.raised THEN "etl_raised" ELSE "etl_returned"
           /\ error' = IF r.raised THEN "ETLError" ELSE error
    /\ UNCHANGED <<messages, node, active, step, results, finished, idgen, free, status,
                   final_response, searchVars, downloadVars, creds, force_rebuild, imgs,
                   data_referencia, sql_tool, df_daily, shown>>
    /\ UNCHANGED handle_tool_errors

\* any state of the database file and of the data directory, either value
\* of the argument
PipelineInit ==
    /\ handle_tool_errors \in BOOLEAN
    /\ DownloadIdle
    /\ AgentIdle
    /\ SearchIdle
    /\ force_rebuild \in BOOLEAN
    /\ etl = NoEtl
    /\ stage = "etl_call"
    /\ creds = TRUE
    /\ db \in DbStates
    /\ parquet \in {"none", "readable", "unreadable"}
    /\ imgs = {}
    /\ data_referencia = <<>>
    /\ sql_tool = NoTool
    /\ df_daily = {}
    /\ shown = NothingShown

PipelineNext ==
    \E dl \in DownloadOutcomes, pr \in ProcessorOutcomes, t \in Tables : EtlCall(dl, pr, t)

PipelineSpec == PipelineInit /\ [][PipelineNext]_vars

----------------------------------------------------------------------------
(* The downloader: DataDownloader.run and its _download_file tasks *)

\* the chunks response.content.iter_chunked(64 * 1024) yields for a file
FileChunks == 2

MaxLinks == 2

MaxRuns == 2

\* the k-th chunk of the resource at url, and what a file holds where
\* nothing was written below a later write
Chunk(url, k) == [url |-> url, k |-> k]

\* the whole content of the resource at url
Content(url) == [k \in 1..FileChunks |-> Chunk(url, k)]

\* tasks = [self._download_file(session, link) for link in download_links]
NewTasks(links) ==
    [i \in 1..Len(links) |-> [url |-> links[i], pc |-> "start", pos |-> 0, buf |-> <<>>]]

\* one chunk written to the file at the position pos of a handle; what lies
\* between the end of the file and pos is a hole
write(data, pos, chunk) ==
    IF Len(data) > pos THEN [data EXCEPT ![pos + 1] = chunk]
    ELSE data \o [j \in 1..(pos - Len(data)) |-> [url |-> <<>>, k |-> 0]] \o <<chunk>>

\* the buffer of a handle written to the file, from the handle's position on
RECURSIVE flush(_, _, _)
flush(data, pos, buf) ==
    IF buf = <<>> THEN data
    ELSE flush(write(data, pos, Head(buf)), pos + 1, Tail(buf))

\* _download_file up to its first await: the file name, the exists check,
\* and the request sent
CheckExists(i) ==
    /\ i \in 1..Len(tasks)
    /\ tasks[i].pc = "start"
    /\ tasks' = [tasks EXCEPT ![i].pc =
                    IF disk[filename(tasks[i].url)].exists THEN "skipped" ELSE "get"]
    /\ UNCHANGED <<download_links, disk, runs, agentVars, searchVars, pageVars>>
    /\ UNCHANGED handle_tool_errors

\* the response arrives, after gather has started every task;
\* raise_for_status() passes or raises into the except, which logs
Respond(i, ok) ==
    /\ i \in 1..Len(tasks)
    /\ tasks[i].pc = "get"
    /\ \A j \in 1..Len(tasks) : tasks[j].pc # "start"
    /\ tasks' = [tasks EXCEPT ![i].pc = IF ok THEN "open" ELSE "failed"]
    /\ UNCHANGED <<download_links, disk, runs, agentVars, searchVars, pageVars>>
    /\ UNCHANGED handle_tool_errors

\* aiofiles.open(filepath, "wb"): the file is created, or cut to length 0
OpenFile(i) ==
    /\ i \in 1..Len(tasks)
    /\ tasks[i].pc = "open"
    /\ disk' = [disk EXCEPT ![filename(tasks[i].url)] = [exists |-> TRUE, data |-> <<>>]]
    /\ tasks' = [tasks EXCEPT ![i].pc = "write", ![i].pos = 0, ![i].buf = <<>>]
    /\ UNCHANGED <<download_links, runs, agentVars, searchVars, pageVars>>
    /\ UNCHANGED handle_tool_errors

\* await f.write(chunk), for the next chunk of the response; the handle has
\* written pos chunks to the file and holds buf in its buffer. On the
\* buffered file that open(filepath, "wb") gives, the chunk fits into the
\* buffer and stays there ("buffered"); or the buffer is written out and the
\* chunk takes its place ("flushed"); or the chunk is larger than the buffer
\* ("direct"): the buffer is written out, which is a write of its own when
\* it holds something, and the chunk is written after it
WriteChunk(i, mode) ==
    /\ i \in 1..Len(tasks)
    /\ tasks[i].pc = "write"
    /\ tasks[i].pos + Len(tasks[i].buf) < FileChunks
    /\ mode = "flushed" => tasks[i].buf # <<>>
    /\ LET n == filename(tasks[i].url)
           t == tasks[i]
           chunk == Chunk(t.url, t.pos + Len(t.buf) + 1)
       IN  IF mode = "buffered"
           THEN /\ tasks' = [tasks EXCEPT ![i].buf = Append(@, chunk)]
                /\ UNCHANGED disk
           ELSE IF mode = "flushed"
           THEN /\ disk' = [disk EXCEPT ![n].data = flush(@, t.pos, t.buf)]
                /\ tasks' = [tasks EXCEPT ![i].pos = @ + Len(t.buf), ![i].buf = <<chunk>>]
           ELSE IF t.buf # <<>>
           THEN /\ disk' = [disk EXCEPT ![n].data = flush(@, t.pos, t.buf)]
                /\ tasks' = [tasks EXCEPT ![i].pos = @ + Len(t.buf), ![i].buf = <<>>,
                                           ![i].pc = "writing"]
           ELSE /\ disk' = [disk EXCEPT ![n].data = write(@, t.pos, chunk)]
                /\ tasks' = [tasks EXCEPT ![i].pos = @ + 1]
    /\ UNCHANGED <<download_links, runs, agentVars, searchVars, pageVars>>
    /\ UNCHANGED handle_tool_errors

\* the second write of f.write(chunk) on a chunk larger than the buffer: the
\* buffer is out, the chunk follows it at the handle's position
WriteThrough(i) ==
    /\ i \in 1..Len(tasks)
    /\ tasks[i].pc = "writing"
    /\ disk' = [disk EXCEPT ![filename(tasks[i].url)].data =
                    write(@, tasks[i].pos, Chunk(tasks[i].url, tasks[i].pos + 1))]
    /\ tasks' = [tasks EXCEPT ![i].pos = @ + 1, ![i].pc = "write"]
    /\ UNCHANGED <<download_links, runs, agentVars, searchVars, pageVars>>
    /\ UNCHANGED handle_tool_errors

\* the file is closed: what the buffer holds is written at the handle's
\* position
close(i, pc) ==
    /\ disk' = [disk EXCEPT ![filename(tasks[i].url)].data =
                    flush(@, tasks[i].pos, tasks[i].buf)]
    /\ tasks' = [tasks EXCEPT ![i].pc = pc, ![i].pos = @ + Len(tasks[i].buf),
                               ![i].buf = <<>>]

\* the response is read to its end: the file is closed, "Download concluído"
StreamEnds(i) ==
    /\ i \in 1..Len(tasks)
    /\ tasks[i].pc = "write"
    /\ tasks[i].pos + Len(tasks[i].buf) = FileChunks
    /\ close(i, "done")
    /\ UNCHANGED <<download_links, runs, agentVars, searchVars, pageVars>>
    /\ UNCHANGED handle_tool_errors

\* the read of the body raises, before a chunk or where the end of the body
\* is due: the exception leaves the async with, which closes the file, and
\* the except logs "Falha ao baixar"
StreamBreaks(i) ==
    /\ i \in 1..Len(tasks)
    /\ tasks[i].pc = "write"
    /\ close(i, "failed")
    /\ UNCHANGED <<download_links, runs, agentVars, searchVars, pageVars>>
    /\ UNCHANGED handle_tool_errors

\* asyncio.gather has returned
RunOver == \A i \in 1..Len(tasks) : tasks[i].pc \in {"skipped", "done", "failed"}

\* run_downloader() is called again, the portal lists the same links
RunAgain ==
    /\ RunOver
    /\ runs < MaxRuns
    /\ runs' = runs + 1
    /\ tasks' = NewTasks(download_links)
    /\ UNCHANGED <<download_links, disk, agentVars, searchVars, pageVars>>
    /\ UNCHANGED handle_tool_errors

\* run_downloader() on an empty data directory, the links read: any list
\* _extract_parquet_links_from_json may return
DownloadInit ==
    /\ handle_tool_errors \in BOOLEAN
    /\ AgentIdle
    /\ SearchIdle
    /\ force_rebuild = FALSE
    /\ etl = NoEtl
    /\ stage = "download"
    /\ creds = TRUE
    /\ db = NoDb
    /\ parquet = "none"
    /\ imgs = {}
    /\ data_referencia = <<>>
    /\ sql_tool = NoTool
    /\ df_daily = {}
    /\ shown = NothingShown
    /\ download_links \in UNION {[1..n -> Urls] : n \in 0..MaxLinks}
    /\ tasks = NewTasks(download_links)
    /\ disk = [n \in FileNames |-> AbsentFile]
    /\ runs = 1

DownloadNext ==
    \/ \E i \in 1..MaxLinks + 1 : CheckExists(i)
    \/ \E i \in 1..MaxLinks + 1, ok \in BOOLEAN : Respond(i, ok)
    \/ \E i \in 1..MaxLinks + 1 : OpenFile(i)
    \/ \E i \in 1..MaxLinks + 1, mode \in {"buffered", "flushed", "direct"} :
          WriteChunk(i, mode)
    \/ \E i \in 1..MaxLinks + 1 : WriteThrough(i)
    \/ \E i \in 1..MaxLinks + 1 : StreamEnds(i)
    \/ \E i \in 1..MaxLinks + 1 : StreamBreaks(i)
    \/ RunAgain

DownloadSpec == DownloadInit /\ [][DownloadNext]_vars

\* get_agent_graph() and agent.invoke() on their own, on any state of the
\* database file
BuildInit ==
    /\ handle_tool_errors \in BOOLEAN
    /\ DownloadIdle
    /\ AgentIdle
    /\ SearchIdle
    /\ force_rebuild = FALSE
    /\ etl = NoEtl
    /\ stage = "graph"
    /\ creds = TRUE
    /\ db \in DbStates
    /\ parquet = "none"
    /\ imgs \in {{}, {img_daily, img_monthly}}
    /\ data_referencia = get_latest_db_date(db)
    /\ sql_tool = NoTool
    /\ df_daily = {}
    /\ shown = NothingShown

BuildNext ==
    \/ StartAgent
    \/ AgentNext

BuildSpec == BuildInit /\ [][BuildNext]_vars

----------------------------------------------------------------------------
(* Properties of the agent graph *)

Last(seq) == seq[Len(seq)]

IsReasoning(m) == m.role = "ai" /\ m.content = "raciocinio"

IsReport(m) == m.role = "ai" /\ m.content = "relatorio"

\* the positions of the Assistant messages of agent_brain
ReasoningAt == {p \in 1..Len(messages) : IsReasoning(messages[p])}

\* the model has asked for a capability in every Reasoning step so far
AlwaysRequests == \A p \in ReasoningAt : Len(messages[p].tool_calls) > 0

\* the Assistant messages whose calls ToolNode has answered
AnsweredAt == {p \in ReasoningAt : Len(messages[p].tool_calls) > 0 /\ Len(messages) > p}

\* C1: after a Reasoning step the graph goes to tools_execution if and only
\* if the Assistant message just appended carries at least one tool call,
\* to final_report if and only if it carries none, and nowhere else.
C1_RouterDecides ==
    [][(node = "agent_brain" /\ step' # step) =>
          /\ node' \in {"tools_execution", "final_report"}
          /\ IsReasoning(Last(messages'))
          /\ (node' = "tools_execution") <=> (Len(Last(messages').tool_calls) >= 1)
          /\ (node' = "final_report") <=> (Len(Last(messages').tool_calls) = 0)]_vars

\* a run that went through tools_execution and is now routed to final_report
C1_Witness ==
    /\ node = "final_report"
    /\ AnsweredAt # {}
    /\ Len(Last(messages).tool_calls) = 0

C3_Terminates == <>(status \in {"report", "failed"})

\* a run that used every superstep the limit allows and has ended
C3_Witness ==
    /\ status \in {"report", "failed"}
    /\ step = RecursionLimit
    /\ Len(messages) >= RecursionLimit

\* C4: the Conversation is append-only: every step of the run keeps the
\* messages it found as an unchanged prefix, and every node step
\* (agent_brain, tools_execution, final_report) makes it strictly longer.
C4_AppendOnly ==
    [][/\ Len(messages') >= Len(messages)
       /\ SubSeq(messages', 1, Len(messages)) = messages
       /\ (step' # step) => (Len(messages') > Len(messages))]_vars

\* the three nodes have all appended: a report after answered tool calls
C4_Witness ==
    /\ IsReport(Last(messages))
    /\ \E i \in 1..Len(messages) : messages[i].role = "tool"
    /\ Len(messages) >= 5

C6_FaultRecovered ==
    [][(node = "tools_execution" /\ status = "running" /\ step < RecursionLimit) =>
          /\ status' = "running"
          /\ error' = "none"
          /\ \A i \in 1..Len(results') : results'[i] # Raised
          /\ (step' # step) =>
                /\ node' = "agent_brain"
                /\ \A i \in 1..Len(PendingCalls) :
                      /\ messages'[Len(messages) + i].role = "tool"
                      /\ messages'[Len(messages) + i].tool_call_id = PendingCalls[i].id
                      /\ messages'[Len(messages) + i].content # ""
                      /\ messages'[Len(messages) + i] = [results[i] EXCEPT !.id = @ + idgen + i]]_vars

\* C7: once ToolNode has returned, every call of the requesting Assistant
\* message has exactly one ToolMessage in the Conversation; these messages
\* follow the requesting message immediately, in the order of the calls,
\* and the next Assistant message comes after all of them.
C7_ResultsInRequestOrder ==
    \A p \in AnsweredAt :
        LET calls == messages[p].tool_calls
        IN  /\ Len(messages) >= p + Len(calls)
            /\ \A i \in 1..Len(calls) :
                  /\ messages[p + i].role = "tool"
                  /\ messages[p + i].tool_call_id = calls[i].id
                  /\ messages[p + i].name = calls[i].name
                  /\ Cardinality({j \in 1..Len(messages) :
                                    messages[j].tool_call_id = calls[i].id}) = 1
            /\ \A j \in p + 1..Len(messages) :
                  messages[j].role = "ai" => j > p + Len(calls)

\* two calls whose second ended first, answered in the order of the calls
C7_Witness ==
    /\ node = "agent_brain"
    /\ finished = <<2, 1>>
    /\ Len(messages) = 4
    /\ messages[3].tool_call_id = messages[2].tool_calls[1].id
    /\ messages[4].tool_call_id = messages[2].tool_calls[2].id
    /\ messages[3].name # messages[4].name

----------------------------------------------------------------------------
(* Properties of the retrieval tool *)

Contents_of(docs) == {docs[i].page_content : i \in 1..Len(docs)}

\* C8 as claimed: the tool never raises, and a failed search request gives
\* the same fixed text as an empty result list (the "no news found" text).
C8_OneSentinel ==
    /\ s_pc # "raised"
    /\ (s_pc = "done" /\ (tavily = "failed" \/ (tavily = "ok" /\ raw_results = <<>>)))
          => output = NoNewsText

\* C8, amended: the tool never raises past search_process; a failed search
\* request gives the fixed text "Erro ao buscar contexto externo." and an
\* empty result list gives the fixed text "Nenhuma notícia encontrada.",
\* and these are two different texts.
C8_TwoSentinels ==
    /\ s_pc # "raised"
    /\ (s_pc = "done" /\ tavily = "failed") => output = SearchErrorText
    /\ (s_pc = "done" /\ tavily = "ok" /\ raw_results = <<>>) => output = NoNewsText
    /\ (s_pc = "done" /\ tavily = "failed") => output # NoNewsText

\* the search request failed and search_process has answered
C8_Witness ==
    /\ s_pc = "done"
    /\ tavily = "failed"
    /\ output = SearchErrorText

\* C9: the two branches fail independently: a branch that failed contributes
\* the empty list; whenever chunks exist both branches are attempted, also
\* after the other one failed; and when exactly one branch failed the call
\* returns the formatted documents of the other branch, not an error.
C9_FailSoft ==
    /\ s_pc # "raised"
    /\ ("semantic" \in branch_failed /\ s_pc \in {"lexical", "done"}) => semantic_docs = <<>>
    /\ ("lexical" \in branch_failed /\ s_pc = "done") => lexical_docs = <<>>
    /\ (s_pc = "lexical") => "semantic" \in branch_ran
    /\ (s_pc = "done" /\ chunks # <<>>) =>
          /\ branch_ran = {"semantic", "lexical"}
          /\ (branch_failed = {"semantic"}) =>
                /\ Len(lexical_docs) = Min(lexical_k, Len(chunks))
                /\ output = context_str(Fuse(lexical_docs))
                /\ output # SearchErrorText
          /\ (branch_failed = {"lexical"}) =>
                /\ Len(semantic_docs) = Min(semantic_k, Len(chunks))
                /\ output = context_str(Fuse(semantic_docs))
                /\ output # SearchErrorText

\* the semantic branch failed, the lexical one ran and its documents are
\* what the call returned
C9_Witness ==
    /\ s_pc = "done"
    /\ branch_failed = {"semantic"}
    /\ Len(lexical_docs) >= 2
    /\ unique_docs = lexical_docs
    /\ output # ""

\* C10: the fused list holds every chunk content of the two lists exactly
\* once: its length is the number of different contents in the semantic and
\* the lexical list together.
C10_Dedup ==
    (s_pc = "done" /\ "lexical" \in branch_ran) =>
        /\ Len(unique_docs) = Cardinality(Contents_of(semantic_docs \o lexical_docs))
        /\ Contents_of(unique_docs) = Contents_of(semantic_docs \o lexical_docs)
        /\ \A i, j \in 1..Len(unique_docs) :
              i # j => unique_docs[i].page_content # unique_docs[j].page_content
        /\ output = context_str(unique_docs)

\* one content is in both lists and twice in the semantic list, and the
\* fused list is shorter than the two lists together
C10_Witness ==
    /\ s_pc = "done"
    /\ Len(semantic_docs) = semantic_k
    /\ Len(lexical_docs) = lexical_k
    /\ \E i, j \in 1..Len(semantic_docs) :
          /\ i # j
          /\ semantic_docs[i].page_content = semantic_docs[j].page_content
          /\ semantic_docs[i].page_content \in Contents_of(lexical_docs)
    /\ Len(unique_docs) = 2

\* the blocks a fused list renders, as a set (content and source title)
Blocks_of(docs) == {Block(docs[i]) : i \in 1..Len(docs)}

\* C11: fusing the semantic list followed by the lexical list gives the same
\* output set as fusing the lexical list followed by the semantic list: the
\* same contents and, for each content, the same source title.
C11_OrderIndependent ==
    (s_pc = "done" /\ "lexical" \in branch_ran) =>
        /\ unique_docs = Fuse(semantic_docs \o lexical_docs)
        /\ Blocks_of(Fuse(semantic_docs \o lexical_docs))
              = Blocks_of(Fuse(lexical_docs \o semantic_docs))

\* the contents of a list in the order of their first appearance
RECURSIVE FirstAppearances(_)
FirstAppearances(docs) ==
    IF docs = <<>> THEN <<>>
    ELSE LET front == FirstAppearances(SubSeq(docs, 1, Len(docs) - 1))
             c == docs[Len(docs)].page_content
         IN  IF \E i \in 1..Len(front) : front[i] = c THEN front ELSE Append(front, c)

\* C12: the fused list is the union of the two rankings and is not re-sorted:
\* its contents are those of the semantic top-3 and of the lexical top-3 and
\* no other; they stand in the order of their first appearance in the
\* semantic list followed by the lexical list; so at most 6 blocks are
\* rendered, and the text returned is these blocks joined by the delimiter.
C12_UnionInOrder ==
    (s_pc = "done" /\ "lexical" \in branch_ran) =>
        /\ Len(semantic_docs) <= semantic_k
        /\ Len(lexical_docs) <= lexical_k
        /\ Contents_of(unique_docs) = Contents_of(semantic_docs) \cup Contents_of(lexical_docs)
        /\ [i \in 1..Len(unique_docs) |-> unique_docs[i].page_content]
              = FirstAppearances(semantic_docs \o lexical_docs)
        /\ Len(unique_docs) <= semantic_k + lexical_k
        /\ output = Join([i \in 1..Len(unique_docs) |-> Block(unique_docs[i])], Delimiter)

\* the two top-3 lists share no content: six blocks are rendered
C12_Witness ==
    /\ s_pc = "done"
    /\ Len(semantic_docs) = semantic_k
    /\ Len(lexical_docs) = lexical_k
    /\ Len(unique_docs) = semantic_k + lexical_k
    /\ output = context_str(semantic_docs \o lexical_docs)

----------------------------------------------------------------------------
(* Properties of the run of app.py *)

\* C13: there is one Reference Date per run: in every state in which the SQL
\* tool exists, the date its system prompt names as "hoje" is the date
\* app.py read after the ETL, and it is the date written in the Human task
\* prompt that seeds the Conversation.
C13_OneReferenceDate ==
    sql_tool.built =>
        /\ sql_tool.max_date = data_referencia
        /\ messages # <<>>
        /\ messages[1].role = "human"
        /\ messages[1].content = prompt_dinamico(sql_tool.max_date)

\* the tool was built on a table whose latest day is the Reference Date, and
\* the prompt that carries the date has been answered
C13_Witness ==
    /\ sql_tool.built
    /\ IsDate(data_referencia)
    /\ sql_tool.max_date = data_referencia
    /\ db.has_table /\ db.days # {}
    /\ data_referencia = Dates[SetMax(db.days)]
    /\ messages[1].content = prompt_dinamico(data_referencia)
    /\ Len(messages) >= 2

\* C14: for every Reference Date D the window of the "last 30 days" the
\* program computes is [D-29, D], 30 calendar days that end at D: the daily
\* chart, once drawn, covers these days of the table, whatever the clock of
\* the host says; on the table with one row per day over
\* 2024-06-01..2024-06-30 these are all 30 days.
C14_Last30Days ==
    (stage = "graph" /\ db.exists /\ error = "none") =>
        /\ IsDate(data_referencia)
        /\ df_daily = {d \in db.days : DayOf(data_referencia) - 29 <= d
                                       /\ d <= DayOf(data_referencia)}
        /\ \A host \in Hosts : query_daily(db, host) = [raised |-> FALSE, days |-> df_daily]
        /\ (db.days = (DayOf(strftime(computeJD(2024, 6, 1)))
                          ..DayOf(strftime(computeJD(2024, 6, 30))))) =>
               /\ data_referencia = strftime(computeJD(2024, 6, 30))
               /\ Cardinality(df_daily) = 30

\* the daily chart drawn from a table that holds more than 30 days up to
\* 2024-06-30: it covers the last 30 of them and leaves the earlier ones out
C14_Witness ==
    /\ stage = "graph" /\ error = "none"
    /\ data_referencia = strftime(computeJD(2024, 6, 30))
    /\ Cardinality(db.days) > 30
    /\ Cardinality(df_daily) = 30
    /\ \A d \in db.days : d \in df_daily <=> d > DayOf(data_referencia) - 30

\* C15: the SQL tool is read-only: no step of an orchestration run changes
\* the analytic table (a statement that would change it is refused before
\* it runs), so the table is the same after the run as before it.
C15_ReadOnly == [][status = "running" => db' = db]_vars

\* C16: when the analytic table is missing (no database file, or a file that
\* holds no table casos_srag), the construction of the SQL tool fails with
\* an error: no tool is returned and no graph is built or run.
C16_FailFast ==
    [][(stage = "graph" /\ (~db.exists \/ ~db.has_table)) =>
          /\ stage' = "aborted"
          /\ error' # "none"
          /\ ~sql_tool'.built
          /\ status' = "idle"]_vars

\* C17: setup faults are fatal and come before the orchestration: while a
\* credential or the database file is missing no graph run has begun (no
\* model call, no tool call, no tool built), the fault is raised once the
\* run is past the stage that needs what is missing, a run that ended in a
\* setup stage never entered the graph, and the graph is entered only with
\* the credentials and a table that holds dated rows.
C17_SetupFaultsFirst ==
    /\ (~creds \/ ~db.exists) =>
           /\ status = "idle"
           /\ messages = <<>> /\ step = 0 /\ results = <<>>
           /\ ~sql_tool.built
    /\ (~creds /\ stage # "import") => (stage = "crashed" /\ error = "ValidationError")
    /\ (~db.exists /\ stage \notin {"import", "etl", "charts", "graph"}) =>
           (stage \in {"crashed", "aborted"} /\ error # "none")
    /\ (stage \in {"crashed", "aborted"}) =>
           (status = "idle" /\ messages = <<>> /\ step = 0 /\ ~sql_tool.built)
    /\ (status = "running" /\ step = 0) =>
           (creds /\ db.exists /\ db.has_table /\ db.days # {})

\* the ETL returned, no database file exists, and get_agent_graph() raised
\* before agent.invoke
C17_Witness ==
    /\ creds
    /\ ~db.exists
    /\ stage = "aborted"
    /\ error = "FileNotFoundError"
    /\ data_referencia = FallbackDate
    /\ status = "idle"
    /\ messages = <<>>

\* C18: whenever verify_and_run_etl() returns without raising, the database
\* file exists and holds the table casos_srag.
C18_DatasetAfterETL ==
    (stage = "charts") => (db.exists /\ db.has_table)

\* C19: a fatal fault in any stage (settings, ETL, charts, construction of
\* the graph, step limit, a model call that raises) ends the run with
\* nothing displayed: neither the report nor an image, whatever image files
\* are on disk; what is displayed is displayed by a run without a fault.
C19_FaultsShowNothing ==
    /\ (error # "none") => (stage # "done" /\ shown = NothingShown)
    /\ (stage \in {"crashed", "aborted"} \/ status = "failed") => error # "none"
    /\ (shown # NothingShown) => (stage = "done" /\ status = "report")

\* the charts of this run are on disk, the graph run failed, and the page
\* shows neither report nor image
C19_Witness ==
    /\ status = "failed"
    /\ error \in {"LLMError", "GraphRecursionError"}
    /\ df_daily # {}
    /\ imgs = {img_daily, img_monthly}
    /\ shown = NothingShown

\* C20: a fault of the synthesis is fatal: when the model call of
\* report_generation_node raises, the run is a failed run, agent.invoke
\* returns nothing, and no text (not the last Reasoning message, not a part
\* of a report) becomes the report or is displayed.
C20_SynthesisFaultFatal ==
    (error = "LLMError" /\ node # "agent_brain") =>
        /\ status = "failed"
        /\ node = "final_report"
        /\ final_response = ""
        /\ stage = "agent"
        /\ shown = NothingShown
        /\ ~IsReport(Last(messages))

\* the model answered the task, ran a query, stopped asking, and the
\* synthesis call raised: the Conversation ends on a Reasoning message that
\* is not shown
C20_Witness ==
    /\ status = "failed"
    /\ error = "LLMError"
    /\ node = "final_report"
    /\ Len(messages) >= 4
    /\ IsReasoning(Last(messages))
    /\ Last(messages).content # ""
    /\ final_response = ""
    /\ shown = NothingShown

\* C28: when chunks exist and neither branch gave a document (both raised),
\* the fused list is empty and the tool returns the empty string, which is
\* none of its fixed texts for missing context.
C28_EmptyStringWhenBothFail ==
    (s_pc = "done" /\ chunks # <<>> /\ semantic_docs = <<>> /\ lexical_docs = <<>>) =>
        /\ branch_ran = {"semantic", "lexical"}
        /\ branch_failed = {"semantic", "lexical"}
        /\ unique_docs = <<>>
        /\ output = ""
        /\ output \notin {NoNewsText, EmptyContentText, NoChunksText, SearchErrorText}

\* three chunks were cut, the embedding raised and BM25 raised: the call has
\* returned the empty string
C28_Witness ==
    /\ s_pc = "done"
    /\ tavily = "ok"
    /\ Len(chunks) = 3
    /\ branch_failed = {"semantic", "lexical"}
    /\ output = ""

----------------------------------------------------------------------------
(* Further properties of the agent graph *)

\* the Conversation as it was when its p-th message was the last one
PrefixTo(p) == SubSeq(messages, 1, p)

\* a Conversation with every requested call of its last message renamed
Renamed(conv, n) ==
    [conv EXCEPT ![Len(conv)].tool_calls =
        [i \in 1..Len(conv[Len(conv)].tool_calls) |->
            [conv[Len(conv)].tool_calls[i] EXCEPT !.name = n]]]

\* C21: the router is a function of the last message only: two Conversations
\* of any lengths and earlier messages whose last Assistant messages agree
\* on having requested calls or not are routed to the same node; the number
\* of messages and the names of the capabilities play no part.
C21_RouterPure ==
    /\ \A p, q \in ReasoningAt :
          ((Len(messages[p].tool_calls) > 0) <=> (Len(messages[q].tool_calls) > 0))
              => router(PrefixTo(p)) = router(PrefixTo(q))
    /\ \A p \in ReasoningAt :
          /\ router(PrefixTo(p)) = router(<<messages[p]>>)
          /\ \A n \in ToolNames : router(Renamed(PrefixTo(p), n)) = router(PrefixTo(p))

\* two Assistant messages of one run, at different lengths of the
\* Conversation, request different capabilities and are routed alike
C21_Witness ==
    \E p, q \in ReasoningAt :
        /\ p + 4 <= q
        /\ Len(messages[p].tool_calls) > 0
        /\ Len(messages[q].tool_calls) > 0
        /\ messages[p].tool_calls[1].name # messages[q].tool_calls[1].name
        /\ router(PrefixTo(p)) = "tools_execution"
        /\ router(PrefixTo(q)) = "tools_execution"

\* C22: the two unconditional edges: whenever tools_execution has run, the
\* node that follows is agent_brain (and the step limit leaves it room to
\* run); whenever final_report has run, what follows is the end of the run,
\* never agent_brain or tools_execution; after the end no node runs and the
\* Conversation no longer changes.
C22_UnconditionalEdges ==
    [][/\ (node = "tools_execution" /\ node' # node) =>
              (node' = "agent_brain" /\ ~out_of_steps(step'))
       /\ (node = "final_report" /\ node' # node) => node' = "__end__"
       /\ (node = "__end__") => (node' = "__end__" /\ messages' = messages /\ step' = step)
       /\ (IsReport(Last(messages))) => messages' = messages]_vars

\* a run that went from tools_execution back to agent_brain, later through
\* final_report, and has ended
C22_Witness ==
    /\ node = "__end__"
    /\ status = "report"
    /\ AnsweredAt # {}
    /\ IsReport(Last(messages))

\* C23: a run of the graph is entered at agent_brain with a Conversation of
\* exactly one message, the Human task prompt that carries the Reference
\* Date; there is no Assistant or tool message before the first Reasoning
\* step, and the first message added is that step's Assistant message.
C23_StartsInReasoning ==
    /\ (status = "running" /\ step = 0) =>
          /\ node = "agent_brain"
          /\ Len(messages) = 1
    /\ (status # "idle") =>
          /\ Len(messages) >= 1
          /\ messages[1].role = "human"
          /\ messages[1].content = prompt_dinamico(data_referencia)
          /\ IsDate(data_referencia)
          /\ \A p \in 2..Len(messages) : messages[p].role \in {"ai", "tool"}
          /\ (Len(messages) >= 2) => (IsReasoning(messages[2]) /\ step >= 1)

\* the graph has just been entered: one Human message with the date of the
\* table, and no step taken yet
C23_Witness ==
    /\ status = "running"
    /\ stage = "agent"
    /\ step = 0
    /\ node = "agent_brain"
    /\ messages = <<[TaskMessage(0, Dates[LastDay]) EXCEPT !.id = 1]>>

\* the urls of the search results whose content is empty
EmptyUrls == {raw_results[i].url : i \in {j \in 1..Len(raw_results) : raw_results[j].content = ""}}

\* C24 as claimed: documents with empty content are discarded, and whenever
\* no chunk results (every document empty, or the splitter gives nothing)
\* the tool returns the one text that says the content could not be
\* segmented, without running a search branch.
C24_OneSentinel ==
    (s_pc = "done" /\ tavily = "ok" /\ raw_results # <<>> /\ chunks = <<>>) =>
        /\ output = NoChunksText
        /\ branch_ran = {}

\* C24, amended: documents with empty content are discarded before chunking;
\* when every document is empty the tool returns the fixed text "Conteúdo das
\* notícias vazio ou ilegível.", when documents are left but the splitter
\* gives no chunk it returns the fixed text "Não foi possível segmentar o
\* texto das notícias."; these are two different texts, and in neither case
\* is the semantic or the lexical branch run.
C24_TwoSentinels ==
    /\ \A i \in 1..Len(chunks) : chunks[i].source \notin EmptyUrls
    /\ (s_pc = "done" /\ tavily = "ok" /\ raw_results # <<>> /\ chunks = <<>>) =>
          /\ branch_ran = {}
          /\ semantic_docs = <<>> /\ lexical_docs = <<>>
          /\ (\A i \in 1..Len(raw_results) : raw_results[i].content = "")
                => output = EmptyContentText
          /\ (\E i \in 1..Len(raw_results) : raw_results[i].content # "")
                => output = NoChunksText
    /\ (s_pc = "done" /\ output \in {EmptyContentText, NoChunksText}) =>
          (tavily = "ok" /\ raw_results # <<>> /\ chunks = <<>>)
    /\ EmptyContentText # NoChunksText

\* two search results, both without content: the tool has answered with the
\* text for empty content and ran no branch
C24_Witness ==
    /\ s_pc = "done"
    /\ tavily = "ok"
    /\ Len(raw_results) = 2
    /\ \A i \in 1..2 : raw_results[i].content = ""
    /\ output = EmptyContentText
    /\ branch_ran = {}

\* C25: one node at a time. (a) In every state at most one node is triggered
\* for the next superstep, and while the run goes on it is the scheduled
\* one. (b) The Conversation is written only by the return of that one
\* node, one superstep at a time, with that node's own messages; the calls
\* that ToolNode runs side by side write their results, never the
\* Conversation.
C25_OneNodeAtATime ==
    /\ [](/\ Cardinality(active) <= 1
          /\ active \subseteq Nodes
          /\ (status = "running" /\ node \in Nodes) => active = {node}
          /\ (node = "__end__") => active = {})
    /\ [][/\ (messages' # messages) =>
                /\ active = {node}
                /\ step' = step + 1
                /\ Len(messages') > Len(messages)
                /\ SubSeq(messages', 1, Len(messages)) = messages
                /\ \A p \in (Len(messages) + 1)..Len(messages') :
                      /\ (node = "agent_brain") =>
                            (IsReasoning(messages'[p]) /\ Len(messages') = Len(messages) + 1)
                      /\ (node = "tools_execution") => messages'[p].role = "tool"
                      /\ (node = "final_report") =>
                            (IsReport(messages'[p]) /\ Len(messages') = Len(messages) + 1)
          /\ (Len(finished') > Len(finished)) =>
                /\ active = {"tools_execution"}
                /\ messages' = messages /\ step' = step /\ active' = active]_vars

\* ToolNode has two calls under way, the second has ended and the first has
\* not: tools_execution is the only triggered node and the Conversation
\* still ends with the Assistant message that asked for the calls
C25_Witness ==
    /\ status = "running"
    /\ active = {"tools_execution"}
    /\ finished = <<2>>
    /\ Len(results) = 2
    /\ results[1] = NoResult
    /\ IsReasoning(Last(messages))
    /\ Len(Last(messages).tool_calls) = 2

\* the positions of the messages of report_generation_node
ReportAt == {p \in 1..Len(messages) : IsReport(messages[p])}

\* C27: report_generation_node runs at most once in a run, and in a run
\* that returned a report it ran exactly once, as the last node: its message
\* is the last of the Conversation, the message before it is a Reasoning
\* message without requested calls, and the returned text is the content of
\* that last message, not the content of a Reasoning or a tool message.
C27_ReportOnceAtEnd ==
    /\ Cardinality(ReportAt) <= 1
    /\ ReportAt \subseteq {Len(messages)}
    /\ (ReportAt # {}) => node = "__end__"
    /\ (status = "report") =>
          /\ ReportAt = {Len(messages)}
          /\ node = "__end__"
          /\ Len(messages) >= 3
          /\ IsReasoning(messages[Len(messages) - 1])
          /\ messages[Len(messages) - 1].tool_calls = <<>>
          /\ final_response = Last(messages).content
          /\ \A p \in 1..Len(messages) :
                (IsReasoning(messages[p]) \/ messages[p].role \in {"tool", "human"})
                    => final_response # messages[p].content
    /\ (status # "report") => final_response = ""

\* two rounds of tool calls, then the report was returned
C27_Witness ==
    /\ status = "report"
    /\ Cardinality(AnsweredAt) >= 2
    /\ final_response = "relatorio"
    /\ IsReport(Last(messages))

----------------------------------------------------------------------------
(* Properties of the data preparation *)

\* C26: verify_and_run_etl follows its decision order. With the database
\* file present and force_rebuild false it calls neither module. Otherwise
\* it calls the downloader exactly when the data directory holds no
\* .parquet file, then the processor, the downloader never after the
\* processor; and when the downloader raises, the exception leaves the
\* function and the processor is not called.
C26_DecisionOrder ==
    (stage \in {"etl_returned", "etl_raised"}) =>
        IF etl.db_exists /\ ~force_rebuild
        THEN /\ etl.ran = <<>>
             /\ stage = "etl_returned"
        ELSE /\ etl.parquet_files \in {"none", "readable", "unreadable"}
             /\ (etl.parquet_files = "none") <=>
                   (Len(etl.ran) >= 1 /\ etl.ran[1] = "run_downloader")
             /\ (etl.parquet_files # "none") => etl.ran = <<"run_processor">>
             /\ IF etl.e = "run_downloader"
                THEN etl.ran = <<"run_downloader">> /\ stage = "etl_raised"
                ELSE /\ Len(etl.ran) >= 1
                     /\ etl.ran[Len(etl.ran)] = "run_processor"
                     /\ \A i \in 1..Len(etl.ran) - 1 : etl.ran[i] = "run_downloader"
                     /\ Len(etl.ran) <= 2
                     /\ (stage = "etl_raised") <=> (etl.e = "run_processor")

\* a forced rebuild on an existing database with an empty data directory:
\* the downloader ran, then the processor, and the table was replaced
C26_Witness ==
    /\ stage = "etl_returned"
    /\ force_rebuild
    /\ etl.db_exists
    /\ etl.parquet_files = "none"
    /\ etl.ran = <<"run_downloader", "run_processor">>
    /\ db.has_table

\* a file that holds the whole content of one resource of that name
Complete(n) ==
    /\ disk[n].exists
    /\ \E i \in 1..Len(download_links) :
          filename(download_links[i]) = n /\ disk[n].data = Content(download_links[i])

\* C29: a raw file in the data directory is a complete one. Once a download
\* run is over, every file it left is the whole content of a resource of
\* that name, and a file that the exists check of _download_file took as
\* already downloaded, in this run or in a later one, is complete; also
\* when two links end in the same file name.
C29_OnlyCompleteFiles ==
    /\ RunOver => \A n \in FileNames : disk[n].exists => Complete(n)
    /\ \A i \in 1..Len(tasks) :
          (tasks[i].pc = "skipped") => Complete(filename(tasks[i].url))
====
